---- MODULE Spec2Model ----
(***************************************************************************)
(* Channel combinators of "Concurrency In Go" (packages utils and          *)
(* utils_generics): OrChannel, TakeChannel, OrDoneChannel, FanInChannel,   *)
(* TeeChannel, BridgeChannel, BufferChannel and ThrottleChannel.           *)
(*                                                                         *)
(* A Go channel is modelled by what the combinators can observe of it:     *)
(* whether it is nil, how often it has been closed, and, for an unbuffered *)
(* channel, the rendezvous between one sender and one receiver.            *)
(***************************************************************************)
EXTENDS Integers, Sequences, FiniteSets, TLC

(* ------------------------------ bounds --------------------------------- *)

\* Number of signal channels of the environment; OrChannel is called with
\* the first n of them, 0 <= n <= MaxOrInputs.
MaxOrInputs == 6

\* Longest source stream of the environment.
MaxSrcLen == 3

\* Largest count TakeChannel is called with.
MaxTake == 3

\* The values the source stream carries are 1 .. MaxVal.
MaxVal == 2

\* Largest number of input streams FanInChannel is called with.
MaxFanIn == 2

\* Longest input stream of FanInChannel.
MaxFanInLen == 2

\* Largest number of inner streams BridgeChannel's outer stream yields.
MaxBridgeStreams == 2

\* Longest inner stream.
MaxBridgeLen == 2

\* Largest limit BufferChannel and ThrottleChannel are called with.
MaxLimit == 2

\* Longest list of values a generator is called with.
MaxListLen == 3

\* Number of values the consumer of a generator that repeats receives.
MaxEmit == 4

VARIABLES
    \* OrChannel
    orN,        \* len(channels) of the top-level OrChannel call
    orClosed,   \* orClosed[c]: how many times channel c has been closed
    orGo,       \* the goroutines spawned by OrChannel calls, in spawn order
    orResult,   \* the channel the top-level call returned
    orRecv,     \* TRUE once the caller's receive <-or(...) has completed
    \* the environment of a stream combinator
    done,       \* TRUE once the done channel is closed
    source,     \* the values the input stream's producer yields, in order
    srcNext,    \* index in source of the next value a receive yields
    srcWillClose, \* whether the producer closes the input stream at its end
    srcClosed,  \* TRUE once the input stream is closed
    otherGot,   \* number of values another reader took from the input stream
    out,        \* the values the consumer received from the output, in order
    \* TakeChannel
    takeNum,    \* num
    takeI,      \* i
    takePc,     \* where the worker goroutine is
    takeVal,    \* the value of <-valueStream the worker holds
    takeReads,  \* number of receives the worker performed on valueStream
    takeClosed, \* how many times takeStream has been closed
    \* OrDoneChannel
    odPc,       \* where the worker goroutine is
    odVal,      \* the value v the worker holds
    odGot,      \* the values the worker received from c, in order
    odClosed,   \* how many times valStream has been closed
    \* FanInChannel
    fiM,        \* len(channels)
    fiLen,      \* fiLen[j]: number of values input j's producer yields
    fiWillClose, \* fiWillClose[j]: whether input j's producer closes it
    fiInClosed, \* fiInClosed[j]: TRUE once input j is closed
    fiNext,     \* fiNext[j]: index of the next value input j yields
    fiPc,       \* fiPc[j]: where the multiplex goroutine of input j is
    fiVal,      \* fiVal[j]: the value i that goroutine holds
    fiWg,       \* the counter of wg
    fiCloserPc, \* where the goroutine that waits and closes is
    fiClosed,   \* how many times multiplexedStream has been closed
    fiOut,      \* fiOut[v]: how often the consumer received the value v
    fiPanic,    \* TRUE once a goroutine sent on the closed multiplexedStream
    \* TeeChannel
    teeMode,    \* how the two outputs are read
    teeTurn,    \* the output a consumer that alternates receives from next
    teePc,      \* where the worker goroutine is
    teeI,       \* i
    teeVal,     \* val
    teeO1,      \* TRUE while the shadow variable out1 is not nil
    teeO2,      \* TRUE while the shadow variable out2 is not nil
    teeGot,     \* the values the worker received from the relay, in order
    teeOut1,    \* the values received from out1, in order
    teeOut2,    \* the values received from out2, in order
    teeClosed1, \* how many times out1 has been closed
    teeClosed2, \* how many times out2 has been closed
    \* BridgeChannel
    brLen,      \* brLen[k]: number of values the k-th inner stream sent so
                \* far on chanStream yields
    brWillClose, \* brWillClose[k]: whether that stream is closed at its end
    brOuterWillClose, \* whether the producer closes chanStream at its end
    brOuterClosed, \* TRUE once chanStream is closed
    brNext,     \* index of the next inner stream chanStream yields
    brPc,       \* where the worker goroutine is
    brVal,      \* val
    brClosed,   \* how many times valStream has been closed
    \* BufferChannel and ThrottleChannel
    bufKind,    \* which of the two was called
    bufLimit,   \* limit
    bufPc,      \* where the worker goroutine is
    bufVal,     \* val
    bufQueue,   \* the values in the buffer of interfaceChannel, in order
    bufTokens,  \* the number of values in the buffer of tokens
    bufClosed,  \* how many times interfaceChannel has been closed
    bufTokClosed, \* how many times tokens has been closed
    \* RepeatValueChannel, RepeatFnChannel and GeneratorToChannel
    genKind,    \* which of the generators was called
    genValues,  \* values, slice
    genIdx,     \* index in genValues of the value the range loop is at
    genPc,      \* where the worker goroutine is
    genVal,     \* the value the worker offers in its send case
    genCalls,   \* number of calls of fn so far
    genQueue,   \* the values in the buffer of interfaceChannel, in order
    genClosed,  \* how many times the output has been closed
    \* ToTChannel
    totPc,      \* where the worker goroutine is
    totVal,     \* v.(T), the value the worker offers in its send case
    totClosed,  \* how many times theStream has been closed
    totPanic,   \* TRUE once a type assertion failed
    totSawEnd,  \* TRUE once the consumer's receive found theStream closed
    \* the workers of TestBufferChannel (sleeper) and TestFanIn (primeFinder)
    wkRelayPc,  \* wkRelayPc[i]: where the relay goroutine of sleeper i is
    wkRelayVal, \* wkRelayVal[i]: the value v that relay holds
    wkRelayClosed, \* wkRelayClosed[i]: how often that relay's valStream
                \* has been closed
    wkPc,       \* wkPc[i]: where the goroutine of worker i is
    wkVal       \* wkVal[i]: val, integer

orVars == <<orN, orClosed, orGo, orResult, orRecv>>

envVars == <<done, source, srcNext, srcWillClose, srcClosed, otherGot, out>>

takeVars == <<takeNum, takeI, takePc, takeVal, takeReads, takeClosed>>

odVars == <<odPc, odVal, odGot, odClosed>>

fiVars == <<fiM, fiLen, fiWillClose, fiInClosed, fiNext, fiPc, fiVal, fiWg,
            fiCloserPc, fiClosed, fiOut, fiPanic>>

\* The variables of the combinators that follow OrDoneChannel in the source.
teeVars == <<teeMode, teeTurn, teePc, teeI, teeVal, teeO1, teeO2, teeGot,
             teeOut1, teeOut2, teeClosed1, teeClosed2>>

brVars == <<brLen, brWillClose, brOuterWillClose, brOuterClosed, brNext,
            brPc, brVal, brClosed>>

bufVars == <<bufKind, bufLimit, bufPc, bufVal, bufQueue, bufTokens,
             bufClosed, bufTokClosed>>

genVars == <<genKind, genValues, genIdx, genPc, genVal, genCalls, genQueue,
             genClosed>>

totVars == <<totPc, totVal, totClosed, totPanic, totSawEnd>>

wkVars == <<wkRelayPc, wkRelayVal, wkRelayClosed, wkPc, wkVal>>

tailVars == <<genVars, totVars, wkVars>>

restVars == <<brVars, bufVars, tailVars>>

moreVars == <<fiVars, teeVars, restVars>>

vars == <<orVars, envVars, takeVars, odVars, moreVars>>

(* ------------------------------ channels ------------------------------- *)

\* The nil channel: a receive on it blocks forever.
Nil == 0

\* A receive on channel c can complete: these channels carry no values, so
\* only a closed, non-nil channel is ready.
IsClosed(closed, c) == c # Nil /\ closed[c] > 0

\* The zero value of interface{}: what a receive on a closed channel yields.
ZeroValue == 0

Min(a, b) == IF a < b THEN a ELSE b

(* ----------------------- components not in use ------------------------- *)

\* The values of the variables of a component a specification does not run.
OrIdle ==
    /\ orN = 0
    /\ orClosed = <<>>
    /\ orGo = <<>>
    /\ orResult = Nil
    /\ orRecv = FALSE

EnvIdle ==
    /\ done = FALSE
    /\ source = <<>>
    /\ srcNext = 1
    /\ srcWillClose = FALSE
    /\ srcClosed = FALSE
    /\ otherGot = 0
    /\ out = <<>>

TakeIdle ==
    /\ takeNum = 0
    /\ takeI = 0
    /\ takePc = "done"
    /\ takeVal = ZeroValue
    /\ takeReads = 0
    /\ takeClosed = 0

OrDoneIdle ==
    /\ odPc = "done"
    /\ odVal = ZeroValue
    /\ odGot = <<>>
    /\ odClosed = 0

FanInIdle ==
    /\ fiM = 0
    /\ fiLen = <<>>
    /\ fiWillClose = <<>>
    /\ fiInClosed = <<>>
    /\ fiNext = <<>>
    /\ fiPc = <<>>
    /\ fiVal = <<>>
    /\ fiWg = 0
    /\ fiCloserPc = "done"
    /\ fiClosed = 0
    /\ fiOut = [v \in {} |-> 0]
    /\ fiPanic = FALSE

TeeIdle ==
    /\ teeMode = "both"
    /\ teeTurn = 1
    /\ teePc = "done"
    /\ teeI = 0
    /\ teeVal = ZeroValue
    /\ teeO1 = FALSE
    /\ teeO2 = FALSE
    /\ teeGot = <<>>
    /\ teeOut1 = <<>>
    /\ teeOut2 = <<>>
    /\ teeClosed1 = 0
    /\ teeClosed2 = 0

BridgeIdle ==
    /\ brLen = <<>>
    /\ brWillClose = <<>>
    /\ brOuterWillClose = FALSE
    /\ brOuterClosed = FALSE
    /\ brNext = 1
    /\ brPc = "done"
    /\ brVal = ZeroValue
    /\ brClosed = 0

BufferIdle ==
    /\ bufKind = "none"
    /\ bufLimit = 0
    /\ bufPc = "done"
    /\ bufVal = ZeroValue
    /\ bufQueue = <<>>
    /\ bufTokens = 0
    /\ bufClosed = 0
    /\ bufTokClosed = 0

GenIdle ==
    /\ genKind = "none"
    /\ genValues = <<>>
    /\ genIdx = 1
    /\ genPc = "done"
    /\ genVal = ZeroValue
    /\ genCalls = 0
    /\ genQueue = <<>>
    /\ genClosed = 0

ToTIdle ==
    /\ totPc = "done"
    /\ totVal = ZeroValue
    /\ totClosed = 0
    /\ totPanic = FALSE
    /\ totSawEnd = FALSE

WorkersIdle ==
    /\ wkRelayPc = <<>>
    /\ wkRelayVal = <<>>
    /\ wkRelayClosed = <<>>
    /\ wkPc = <<>>
    /\ wkVal = <<>>

TailIdle == GenIdle /\ ToTIdle /\ WorkersIdle

RestIdle == BridgeIdle /\ BufferIdle /\ TailIdle

MoreIdle == FanInIdle /\ TeeIdle /\ RestIdle

(* ------------------------------ OrChannel ------------------------------ *)

Signals == 1 .. MaxOrInputs

\* A plausible slip: the empty call hands back an already-closed channel.
OrChannelZeroFires(channels, closed, gos) ==
    IF Len(channels) = 0
      THEN [ret |-> Len(closed) + 1, closed |-> Append(closed, 1), gos |-> gos]
      ELSE IF Len(channels) = 1
        THEN [ret |-> channels[1], closed |-> closed, gos |-> gos]
        ELSE [ret    |-> Len(closed) + 1,
              closed |-> Append(closed, 0),
              gos    |-> Append(gos, [channels |-> channels,
                                      orDone   |-> Len(closed) + 1,
                                      sub      |-> Nil,
                                      pc       |-> "start"])]

\* A plausible slip: no shortcut for one channel, it is wrapped like the rest.
OrChannelWrapsOne(channels, closed, gos) ==
    IF Len(channels) = 0
      THEN [ret |-> Nil, closed |-> closed, gos |-> gos]
      ELSE [ret    |-> Len(closed) + 1,
            closed |-> Append(closed, 0),
            gos    |-> Append(gos, [channels |-> channels,
                                    orDone   |-> Len(closed) + 1,
                                    sub      |-> Nil,
                                    pc       |-> "start"])]

\* The body of a call OrChannel(channels...) up to its return: the result,
\* the channels that exist afterwards and the goroutines that exist afterwards.
OrChannel(channels, closed, gos) ==
    IF Len(channels) = 0
      THEN [ret |-> Nil, closed |-> closed, gos |-> gos]
      ELSE IF Len(channels) = 1
        THEN [ret |-> channels[1], closed |-> closed, gos |-> gos]
        ELSE [ret    |-> Len(closed) + 1,
              closed |-> Append(closed, 0),
              gos    |-> Append(gos, [channels |-> channels,
                                      orDone   |-> Len(closed) + 1,
                                      sub      |-> Nil,
                                      pc       |-> "start"])]

\* A plausible slip: the remainder starts one channel too late.
OrRestSkipsOne(g) ==
    Append(SubSeq(orGo[g].channels, 5, Len(orGo[g].channels)), orGo[g].orDone)

\* A plausible slip: the goroutine's own output is not folded in.
OrRestNoOrDone(g) ==
    SubSeq(orGo[g].channels, 4, Len(orGo[g].channels))

\* append(channels[3:], orDone): the arguments of the recursive call.
OrRest(g) ==
    Append(SubSeq(orGo[g].channels, 4, Len(orGo[g].channels)), orGo[g].orDone)

\* The channels the goroutine's select waits on.
OrCases(g) ==
    { orGo[g].channels[i] : i \in 1 .. Min(3, Len(orGo[g].channels)) }
        \cup (IF Len(orGo[g].channels) > 2 THEN {orGo[g].sub} ELSE {})

\* A plausible slip: a select with a default clause never waits.
OrReadyDefault(g) == TRUE

\* Some case of the goroutine's select can proceed.
OrReady(g) == \E c \in OrCases(g) : IsClosed(orClosed, c)

OrInit ==
    /\ \E n \in 0 .. MaxOrInputs :
          LET call == OrChannel([i \in 1 .. n |-> i],
                                [i \in 1 .. MaxOrInputs |-> 0], <<>>)
          IN  /\ orN = n
              /\ orClosed = call.closed
              /\ orGo = call.gos
              /\ orResult = call.ret
              /\ orRecv = FALSE
    /\ EnvIdle
    /\ TakeIdle
    /\ OrDoneIdle
    /\ MoreIdle

\* The environment closes one of its signal channels.
CloseSignal(i) ==
    /\ orClosed[i] = 0
    /\ orClosed' = [orClosed EXCEPT ![i] = 1]
    /\ UNCHANGED <<orN, orGo, orResult, orRecv, envVars, takeVars, odVars, moreVars>>

\* Goroutine g reaches its select; the channel operands are evaluated, which
\* for three or more channels performs the recursive call.
OrEnterSelect(g) ==
    /\ g \in 1 .. Len(orGo)
    /\ orGo[g].pc = "start"
    /\ IF Len(orGo[g].channels) = 2
         THEN /\ orGo' = [orGo EXCEPT ![g].pc = "select"]
              /\ UNCHANGED orClosed
         ELSE LET call == OrChannel(OrRest(g), orClosed, orGo)
              IN  /\ orGo' = [call.gos EXCEPT ![g].pc = "select",
                                              ![g].sub = call.ret]
                  /\ orClosed' = call.closed
    /\ UNCHANGED <<orN, orResult, orRecv, envVars, takeVars, odVars, moreVars>>

\* One case of g's select proceeds; the goroutine returns and the deferred
\* close(orDone) runs.
OrSelectFire(g) ==
    /\ g \in 1 .. Len(orGo)
    /\ orGo[g].pc = "select"
    /\ OrReady(g)
    /\ orGo' = [orGo EXCEPT ![g].pc = "done"]
    /\ orClosed' = [orClosed EXCEPT ![orGo[g].orDone] = @ + 1]
    /\ UNCHANGED <<orN, orResult, orRecv, envVars, takeVars, odVars, moreVars>>

\* The caller's receive on the returned channel completes.
OrReceive ==
    /\ ~orRecv
    /\ IsClosed(orClosed, orResult)
    /\ orRecv' = TRUE
    /\ UNCHANGED <<orN, orClosed, orGo, orResult, envVars, takeVars, odVars, moreVars>>

OrStep(g) == OrEnterSelect(g) \/ OrSelectFire(g)

OrNext ==
    \/ \E i \in Signals : CloseSignal(i)
    \/ \E g \in 1 .. MaxOrInputs : OrEnterSelect(g)
    \/ \E g \in 1 .. MaxOrInputs : OrSelectFire(g)
    \/ OrReceive

SpecOr == OrInit /\ [][OrNext]_vars

\* Every runnable goroutine is eventually scheduled; the environment is
\* never obliged to close a signal.
FairSpecOr ==
    /\ SpecOr
    /\ \A g \in 1 .. MaxOrInputs : WF_vars(OrStep(g))
    /\ WF_vars(OrReceive)

OrInputs == 1 .. orN

OrTypeOK ==
    /\ orN \in 0 .. MaxOrInputs
    /\ \A c \in 1 .. Len(orClosed) : orClosed[c] \in 0 .. 1
    /\ Len(orGo) <= MaxOrInputs

(* --------------------- the environment of a stream --------------------- *)

Values == 1 .. MaxVal

\* All sequences over S of length at most n.
SeqsUpTo(S, n) == UNION { [1 .. k -> S] : k \in 0 .. n }

\* A receive on the input stream can complete: its producer has a value to
\* hand over, or the stream is closed.
SrcReady == srcNext <= Len(source) \/ srcClosed

\* What a receive on the input stream yields: the next value, or the zero
\* value once the stream is closed and drained.
SrcValue == IF srcNext <= Len(source) THEN source[srcNext] ELSE ZeroValue

\* ok of "v, ok := <-c".
SrcOk == srcNext <= Len(source)

EnvInit ==
    /\ done = FALSE
    /\ source \in SeqsUpTo(Values, MaxSrcLen)
    /\ srcNext = 1
    /\ srcWillClose \in BOOLEAN
    /\ srcClosed = FALSE
    /\ otherGot = 0
    /\ out = <<>>

\* The owner of the done channel closes it.
CloseDone ==
    /\ ~done
    /\ done' = TRUE
    /\ UNCHANGED <<source, srcNext, srcWillClose, srcClosed, otherGot, out>>

\* The producer closes the input stream after its last value was taken.
CloseSource ==
    /\ srcWillClose
    /\ ~srcClosed
    /\ srcNext > Len(source)
    /\ srcClosed' = TRUE
    /\ UNCHANGED <<done, source, srcNext, srcWillClose, otherGot, out>>

\* Another reader of the same input stream receives a value from it.
OtherReceive ==
    /\ srcNext <= Len(source)
    /\ srcNext' = srcNext + 1
    /\ otherGot' = otherGot + 1
    /\ UNCHANGED <<done, source, srcWillClose, srcClosed, out>>

(* ------------------------------ TakeChannel ---------------------------- *)

\* A plausible slip: one iteration too many.
TakeLoopCondLE(i, num) == i <= num

\* A plausible slip: one iteration too few.
TakeLoopCondShort(i, num) == i < num - 1

\* The loop condition i < num.
TakeLoopCond(i, num) == i < num

TakeInit ==
    /\ EnvInit
    /\ takeNum \in 0 .. MaxTake
    /\ takeI = 0
    /\ takePc = "loop"
    /\ takeVal = ZeroValue
    /\ takeReads = 0
    /\ takeClosed = 0
    /\ OrIdle
    /\ OrDoneIdle
    /\ MoreIdle

\* The worker tests the loop condition; when it fails the goroutine returns
\* and the deferred close(takeStream) runs.
TakeLoop ==
    /\ takePc = "loop"
    /\ IF TakeLoopCond(takeI, takeNum)
         THEN /\ takePc' = "recv"
              /\ UNCHANGED takeClosed
         ELSE /\ takePc' = "done"
              /\ takeClosed' = takeClosed + 1
    /\ UNCHANGED <<takeNum, takeI, takeVal, takeReads, envVars, orVars, odVars, moreVars>>

\* Entering the select evaluates the operand <-valueStream of the send case:
\* a receive that blocks until the input stream yields or is closed, whatever
\* the state of done.
TakeRecv ==
    /\ takePc = "recv"
    /\ SrcReady
    /\ takeVal' = SrcValue
    /\ srcNext' = IF SrcOk THEN srcNext + 1 ELSE srcNext
    /\ takeReads' = takeReads + 1
    /\ takePc' = "select"
    /\ UNCHANGED <<takeNum, takeI, takeClosed, orVars, odVars, moreVars>>
    /\ UNCHANGED <<done, source, srcWillClose, srcClosed, otherGot, out>>

\* case <-done: the worker returns, dropping the value it holds, and the
\* deferred close(takeStream) runs.
TakeSelectDone ==
    /\ takePc = "select"
    /\ done
    /\ takePc' = "done"
    /\ takeClosed' = takeClosed + 1
    /\ UNCHANGED <<takeNum, takeI, takeVal, takeReads, envVars, orVars, odVars, moreVars>>

\* case takeStream <- v: the send meets the consumer's receive.
TakeSend ==
    /\ takePc = "select"
    /\ out' = Append(out, takeVal)
    /\ takeI' = takeI + 1
    /\ takePc' = "loop"
    /\ UNCHANGED <<takeNum, takeVal, takeReads, takeClosed, orVars, odVars, moreVars>>
    /\ UNCHANGED <<done, source, srcNext, srcWillClose, srcClosed, otherGot>>

TakeWorker == TakeLoop \/ TakeRecv \/ TakeSelectDone \/ TakeSend

TakeNext ==
    \/ TakeLoop
    \/ TakeRecv
    \/ TakeSelectDone
    \/ TakeSend
    \/ CloseDone /\ UNCHANGED <<takeVars, orVars, odVars, moreVars>>
    \/ CloseSource /\ UNCHANGED <<takeVars, orVars, odVars, moreVars>>
    \/ OtherReceive /\ UNCHANGED <<takeVars, orVars, odVars, moreVars>>

SpecTake == TakeInit /\ [][TakeNext]_vars

\* The worker goroutine is scheduled whenever it can run, the consumer keeps
\* receiving from takeStream, and a producer that is to close its stream
\* does so. Nobody is obliged to close done or to read the input elsewhere.
FairSpecTake ==
    /\ SpecTake
    /\ WF_vars(TakeWorker)
    /\ WF_vars(CloseSource /\ UNCHANGED <<takeVars, orVars, odVars, moreVars>>)

(* ----------------------------- OrDoneChannel -------------------------- *)

\* A plausible slip: the closed input is not noticed.
OrDoneInputEndedNever(ok) == FALSE

\* if ok == false { return }
OrDoneInputEnded(ok) == ok = FALSE

OrDoneInit ==
    /\ EnvInit
    /\ odPc = "select"
    /\ odVal = ZeroValue
    /\ odGot = <<>>
    /\ odClosed = 0
    /\ OrIdle
    /\ TakeIdle
    /\ MoreIdle

\* Outer select, case <-done: the worker returns and the deferred
\* close(valStream) runs.
OrDoneSelectDone ==
    /\ odPc = "select"
    /\ done
    /\ odPc' = "done"
    /\ odClosed' = odClosed + 1
    /\ UNCHANGED <<odVal, odGot, envVars, orVars, takeVars, moreVars>>

\* Outer select, case v, ok := <-c: on a closed input the worker returns and
\* closes valStream, otherwise it goes on to the inner select with v.
OrDoneRecv ==
    /\ odPc = "select"
    /\ SrcReady
    /\ IF OrDoneInputEnded(SrcOk)
         THEN /\ odPc' = "done"
              /\ odClosed' = odClosed + 1
              /\ UNCHANGED <<odVal, odGot, srcNext>>
         ELSE /\ odPc' = "send"
              /\ odVal' = SrcValue
              /\ odGot' = Append(odGot, SrcValue)
              /\ srcNext' = IF SrcOk THEN srcNext + 1 ELSE srcNext
              /\ UNCHANGED odClosed
    /\ UNCHANGED <<done, source, srcWillClose, srcClosed, otherGot, out>>
    /\ UNCHANGED <<orVars, takeVars, moreVars>>

\* Inner select, case valStream <- v: the send meets the consumer's receive.
OrDoneSend ==
    /\ odPc = "send"
    /\ out' = Append(out, odVal)
    /\ odPc' = "select"
    /\ UNCHANGED <<odVal, odGot, odClosed, orVars, takeVars, moreVars>>
    /\ UNCHANGED <<done, source, srcNext, srcWillClose, srcClosed, otherGot>>

\* A plausible slip: a plain send valStream <- v, without the done case.
OrDoneInnerDoneMissing == FALSE

\* The done case of the inner select can proceed.
OrDoneInnerDone == done

\* Inner select, case <-done: v is dropped and the loop goes round.
OrDoneSendDone ==
    /\ odPc = "send"
    /\ OrDoneInnerDone
    /\ odPc' = "select"
    /\ UNCHANGED <<odVal, odGot, odClosed, envVars, orVars, takeVars, moreVars>>

OrDoneWorker == OrDoneSelectDone \/ OrDoneRecv \/ OrDoneSend \/ OrDoneSendDone

OrDoneNext ==
    \/ OrDoneSelectDone
    \/ OrDoneRecv
    \/ OrDoneSend
    \/ OrDoneSendDone
    \/ CloseDone /\ UNCHANGED <<takeVars, orVars, odVars, moreVars>>
    \/ CloseSource /\ UNCHANGED <<takeVars, orVars, odVars, moreVars>>
    \/ OtherReceive /\ UNCHANGED <<takeVars, orVars, odVars, moreVars>>

SpecOrDone == OrDoneInit /\ [][OrDoneNext]_vars

\* The worker goroutine is scheduled whenever it can run, the consumer keeps
\* receiving from valStream, and a producer that is to close its stream
\* does so.
FairSpecOrDone ==
    /\ SpecOrDone
    /\ WF_vars(OrDoneWorker)
    /\ WF_vars(CloseSource /\ UNCHANGED <<takeVars, orVars, odVars, moreVars>>)

\* The steps the worker takes without a partner: no consumer is obliged to
\* receive from valStream and no producer to send on or close c.
OrDoneAlone == OrDoneSelectDone \/ OrDoneRecv \/ OrDoneSendDone

FairSpecOrDoneAlone ==
    /\ SpecOrDone
    /\ WF_vars(OrDoneAlone)

(* ------------------------------ FanInChannel --------------------------- *)

\* All variables but FanInChannel's and done.
notFanInVars ==
    <<orVars, takeVars, odVars, teeVars, restVars,
      source, srcNext, srcWillClose, srcClosed, otherGot, out>>

\* The i-th value of input j: the streams carry values of 1 .. MaxVal, and
\* different inputs carry equal values.
FanInItem(j, i) == ((i + j) % MaxVal) + 1

\* fiOut after the consumer received v.
BagAdd(bag, v) ==
    IF v \in DOMAIN bag THEN [bag EXCEPT ![v] = @ + 1]
                        ELSE [w \in DOMAIN bag \cup {v} |->
                                 IF w = v THEN 1 ELSE bag[w]]

\* A plausible slip: close(multiplexedStream) without waiting for wg.
FanInWaitOverNoWait == TRUE

\* A plausible slip: wg.Wait() returns while one goroutine is still running.
FanInWaitOverEarly == fiWg <= 1

\* wg.Wait() returns.
FanInWaitOver == fiWg = 0

FanInInit ==
    /\ fiM \in 0 .. MaxFanIn
    /\ fiLen \in [1 .. fiM -> 0 .. MaxFanInLen]
    /\ fiWillClose \in [1 .. fiM -> BOOLEAN]
    /\ fiInClosed = [j \in 1 .. fiM |-> FALSE]
    /\ fiNext = [j \in 1 .. fiM |-> 1]
    /\ fiPc = [j \in 1 .. fiM |-> "range"]
    /\ fiVal = [j \in 1 .. fiM |-> ZeroValue]
    /\ fiWg = fiM
    /\ fiCloserPc = "wait"
    /\ fiClosed = 0
    /\ fiOut = [v \in {} |-> 0]
    /\ fiPanic = FALSE
    /\ EnvIdle
    /\ OrIdle
    /\ TakeIdle
    /\ OrDoneIdle
    /\ TeeIdle
    /\ RestIdle

\* The producer of input j closes it after its last value was taken.
FanInCloseInput(j) ==
    /\ j \in 1 .. fiM
    /\ fiWillClose[j]
    /\ ~fiInClosed[j]
    /\ fiNext[j] > fiLen[j]
    /\ fiInClosed' = [fiInClosed EXCEPT ![j] = TRUE]
    /\ UNCHANGED <<fiM, fiLen, fiWillClose, fiNext, fiPc, fiVal, fiWg,
                   fiCloserPc, fiClosed, fiOut, fiPanic, done, notFanInVars>>

\* for i := range c: the receive on input j, which waits for a value or for
\* the close of c, whatever the state of done. On the close the goroutine
\* returns and the deferred wg.Done() runs.
FanInRange(j) ==
    /\ j \in 1 .. fiM
    /\ fiPc[j] = "range"
    /\ IF fiNext[j] <= fiLen[j]
         THEN /\ fiVal' = [fiVal EXCEPT ![j] = FanInItem(j, fiNext[j])]
              /\ fiNext' = [fiNext EXCEPT ![j] = @ + 1]
              /\ fiPc' = [fiPc EXCEPT ![j] = "select"]
              /\ UNCHANGED fiWg
         ELSE /\ fiInClosed[j]
              /\ fiPc' = [fiPc EXCEPT ![j] = "done"]
              /\ fiWg' = fiWg - 1
              /\ UNCHANGED <<fiVal, fiNext>>
    /\ UNCHANGED <<fiM, fiLen, fiWillClose, fiInClosed, fiCloserPc, fiClosed,
                   fiOut, fiPanic, done, notFanInVars>>

\* case <-done: the goroutine returns and the deferred wg.Done() runs.
FanInSelectDone(j) ==
    /\ j \in 1 .. fiM
    /\ fiPc[j] = "select"
    /\ done
    /\ fiPc' = [fiPc EXCEPT ![j] = "done"]
    /\ fiWg' = fiWg - 1
    /\ UNCHANGED <<fiM, fiLen, fiWillClose, fiInClosed, fiNext, fiVal,
                   fiCloserPc, fiClosed, fiOut, fiPanic, done, notFanInVars>>

\* case multiplexedStream <- i: the send meets the consumer's receive; on a
\* closed multiplexedStream the send panics instead.
FanInSend(j) ==
    /\ j \in 1 .. fiM
    /\ fiPc[j] = "select"
    /\ ~fiPanic
    /\ IF fiClosed = 0
         THEN /\ fiOut' = BagAdd(fiOut, fiVal[j])
              /\ fiPc' = [fiPc EXCEPT ![j] = "range"]
              /\ UNCHANGED fiPanic
         ELSE /\ fiPanic' = TRUE
              /\ UNCHANGED <<fiOut, fiPc>>
    /\ UNCHANGED <<fiM, fiLen, fiWillClose, fiInClosed, fiNext, fiVal, fiWg,
                   fiCloserPc, fiClosed, done, notFanInVars>>

\* The last goroutine: wg.Wait() returns and close(multiplexedStream) runs.
FanInClose ==
    /\ fiCloserPc = "wait"
    /\ FanInWaitOver
    /\ fiCloserPc' = "done"
    /\ fiClosed' = fiClosed + 1
    /\ UNCHANGED <<fiM, fiLen, fiWillClose, fiInClosed, fiNext, fiPc, fiVal,
                   fiWg, fiOut, fiPanic, done, notFanInVars>>

FanInCloseDone ==
    /\ CloseDone
    /\ UNCHANGED <<orVars, takeVars, odVars, moreVars>>

FanInMultiplex(j) == FanInRange(j) \/ FanInSelectDone(j) \/ FanInSend(j)

FanInNext ==
    \/ \E j \in 1 .. MaxFanIn : FanInCloseInput(j)
    \/ \E j \in 1 .. MaxFanIn : FanInRange(j)
    \/ \E j \in 1 .. MaxFanIn : FanInSelectDone(j)
    \/ \E j \in 1 .. MaxFanIn : FanInSend(j)
    \/ FanInClose
    \/ FanInCloseDone

SpecFanIn == FanInInit /\ [][FanInNext]_vars

\* Every goroutine is scheduled whenever it can run, the consumer keeps
\* receiving from multiplexedStream, and a producer that is to close its
\* stream does so. Nobody is obliged to close done.
FairSpecFanIn ==
    /\ SpecFanIn
    /\ \A j \in 1 .. MaxFanIn : WF_vars(FanInMultiplex(j))
    /\ \A j \in 1 .. MaxFanIn : WF_vars(FanInCloseInput(j))
    /\ WF_vars(FanInClose)

(* ------------------------------- TeeChannel ---------------------------- *)

\* The bound of "for i := 0; i < 2; i++".
TeeRounds == 2

\* How the outputs are read: by two consumers at their own pace, by one
\* consumer that takes a value from out1 and then one from out2, or one of
\* the outputs only.
TeeModes == {"both", "alternate", "onlyOut1", "onlyOut2"}

\* A receiver is waiting on out1, on out2.
TeeReader1 == teeMode \in {"both", "onlyOut1"} \/ (teeMode = "alternate" /\ teeTurn = 1)

TeeReader2 == teeMode \in {"both", "onlyOut2"} \/ (teeMode = "alternate" /\ teeTurn = 2)

\* A plausible slip: a select without the done case.
TeeDoneMissing == FALSE

\* The done case of the select can proceed.
TeeDoneReady == done

\* A plausible slip: one round of the select for each value.
TeeInnerCondOnce(i) == i < 1

\* The condition i < 2 of the inner loop.
TeeInnerCond(i) == i < TeeRounds

\* A plausible slip: the shadow variable is not set to nil after the send.
TeeAfterSendKept(o) == o

\* out1 = nil, out2 = nil: the shadow variable after its send.
TeeAfterSend(o) == FALSE

\* Where the worker is after one round of the select.
TeeAfterRound(i) == IF TeeInnerCond(i + 1) THEN "deliver" ELSE "range"

TeeInit ==
    /\ EnvInit
    /\ odPc = "select"
    /\ odVal = ZeroValue
    /\ odGot = <<>>
    /\ odClosed = 0
    /\ teeMode \in TeeModes
    /\ teeTurn = 1
    /\ teePc = "range"
    /\ teeI = 0
    /\ teeVal = ZeroValue
    /\ teeO1 = FALSE
    /\ teeO2 = FALSE
    /\ teeGot = <<>>
    /\ teeOut1 = <<>>
    /\ teeOut2 = <<>>
    /\ teeClosed1 = 0
    /\ teeClosed2 = 0
    /\ OrIdle
    /\ TakeIdle
    /\ FanInIdle
    /\ RestIdle

\* for val := range orDone(done, in): the relay's send meets the worker's
\* receive; the shadow variables are set and the inner loop starts.
TeeRange ==
    /\ teePc = "range"
    /\ odPc = "send"
    /\ odPc' = "select"
    /\ teeVal' = odVal
    /\ teeGot' = Append(teeGot, odVal)
    /\ teeO1' = TRUE
    /\ teeO2' = TRUE
    /\ teeI' = 0
    /\ teePc' = IF TeeInnerCond(0) THEN "deliver" ELSE "range"
    /\ UNCHANGED <<teeMode, teeTurn, teeOut1, teeOut2, teeClosed1, teeClosed2>>
    /\ UNCHANGED <<odVal, odGot, odClosed, envVars, orVars, takeVars, fiVars, restVars>>

\* The relay's output is closed: the range loop ends, the worker returns and
\* the deferred close(out1), close(out2) run.
TeeRangeEnd ==
    /\ teePc = "range"
    /\ odClosed > 0
    /\ teePc' = "done"
    /\ teeClosed1' = teeClosed1 + 1
    /\ teeClosed2' = teeClosed2 + 1
    /\ UNCHANGED <<teeMode, teeTurn, teeI, teeVal, teeO1, teeO2, teeGot,
                   teeOut1, teeOut2>>
    /\ UNCHANGED <<odVars, envVars, orVars, takeVars, fiVars, restVars>>

\* case <-done: nothing is sent in this round.
TeeSelectDone ==
    /\ teePc = "deliver"
    /\ TeeDoneReady
    /\ teeI' = teeI + 1
    /\ teePc' = TeeAfterRound(teeI)
    /\ UNCHANGED <<teeMode, teeTurn, teeVal, teeO1, teeO2, teeGot,
                   teeOut1, teeOut2, teeClosed1, teeClosed2>>
    /\ UNCHANGED <<odVars, envVars, orVars, takeVars, fiVars, restVars>>

\* case out1 <- val: the send meets a receive on out1; out1 = nil.
TeeSend1 ==
    /\ teePc = "deliver"
    /\ teeO1
    /\ TeeReader1
    /\ teeOut1' = Append(teeOut1, teeVal)
    /\ teeO1' = TeeAfterSend(teeO1)
    /\ teeTurn' = IF teeMode = "alternate" THEN 2 ELSE teeTurn
    /\ teeI' = teeI + 1
    /\ teePc' = TeeAfterRound(teeI)
    /\ UNCHANGED <<teeMode, teeVal, teeO2, teeGot, teeOut2,
                   teeClosed1, teeClosed2>>
    /\ UNCHANGED <<odVars, envVars, orVars, takeVars, fiVars, restVars>>

\* case out2 <- val: the send meets a receive on out2; out2 = nil.
TeeSend2 ==
    /\ teePc = "deliver"
    /\ teeO2
    /\ TeeReader2
    /\ teeOut2' = Append(teeOut2, teeVal)
    /\ teeO2' = TeeAfterSend(teeO2)
    /\ teeTurn' = IF teeMode = "alternate" THEN 1 ELSE teeTurn
    /\ teeI' = teeI + 1
    /\ teePc' = TeeAfterRound(teeI)
    /\ UNCHANGED <<teeMode, teeVal, teeO1, teeGot, teeOut1,
                   teeClosed1, teeClosed2>>
    /\ UNCHANGED <<odVars, envVars, orVars, takeVars, fiVars, restVars>>

TeeWorker == TeeRange \/ TeeRangeEnd \/ TeeSelectDone \/ TeeSend1 \/ TeeSend2

TeeNext ==
    \/ TeeRange
    \/ TeeRangeEnd
    \/ TeeSelectDone
    \/ TeeSend1
    \/ TeeSend2
    \/ OrDoneSelectDone
    \/ OrDoneRecv
    \/ OrDoneSendDone
    \/ CloseDone /\ UNCHANGED <<takeVars, orVars, odVars, moreVars>>
    \/ CloseSource /\ UNCHANGED <<takeVars, orVars, odVars, moreVars>>

SpecTee == TeeInit /\ [][TeeNext]_vars

\* Both goroutines are scheduled whenever they can run and a producer that
\* is to close its stream does so. Nobody is obliged to close done.
FairSpecTee ==
    /\ SpecTee
    /\ WF_vars(TeeWorker)
    /\ WF_vars(OrDoneAlone)
    /\ WF_vars(CloseSource /\ UNCHANGED <<takeVars, orVars, odVars, moreVars>>)

(* ------------------------------ BridgeChannel -------------------------- *)

\* The i-th value of the k-th inner stream: no two values of a run are equal,
\* so that the order of the output shows.
BridgeItem(k, i) == 10 * k + i

\* The values of the k-th inner stream, in order.
BridgeStream(k) == [i \in 1 .. brLen[k] |-> BridgeItem(k, i)]

BridgeInit ==
    /\ brLen = <<>>
    /\ brWillClose = <<>>
    /\ brOuterWillClose \in BOOLEAN
    /\ brOuterClosed = FALSE
    /\ brNext = 1
    /\ brPc = "outer"
    /\ brVal = ZeroValue
    /\ brClosed = 0
    /\ EnvIdle
    /\ OrDoneIdle
    /\ OrIdle
    /\ TakeIdle
    /\ FanInIdle
    /\ TeeIdle
    /\ BufferIdle
    /\ TailIdle

\* The producer of chanStream closes it after its last inner stream.
BridgeCloseOuter ==
    /\ brOuterWillClose
    /\ ~brOuterClosed
    /\ brOuterClosed' = TRUE
    /\ UNCHANGED <<brLen, brWillClose, brOuterWillClose, brNext, brPc, brVal,
                   brClosed>>
    /\ UNCHANGED <<envVars, odVars, orVars, takeVars, fiVars, teeVars, bufVars, tailVars>>

\* Outer select, case maybeStream, ok := <-chanStream with ok true: the
\* producer's send of one more inner stream, of some length, closed at its
\* end or not, meets the receive; stream is that inner stream, and
\* orDone(done, stream) starts a relay on it.
BridgeRecvStream ==
    /\ brPc = "outer"
    /\ ~brOuterClosed
    /\ Len(brLen) < MaxBridgeStreams
    /\ \E n \in 0 .. MaxBridgeLen, wc \in BOOLEAN :
          /\ brLen' = Append(brLen, n)
          /\ brWillClose' = Append(brWillClose, wc)
          /\ source' = [i \in 1 .. n |-> BridgeItem(brNext, i)]
          /\ srcWillClose' = wc
    /\ srcNext' = 1
    /\ srcClosed' = FALSE
    /\ odPc' = "select"
    /\ odVal' = ZeroValue
    /\ odGot' = <<>>
    /\ odClosed' = 0
    /\ brNext' = brNext + 1
    /\ brPc' = "range"
    /\ UNCHANGED <<brOuterWillClose, brOuterClosed, brVal, brClosed>>
    /\ UNCHANGED <<done, otherGot, out, orVars, takeVars, fiVars, teeVars, bufVars, tailVars>>

\* Outer select, case maybeStream, ok := <-chanStream with ok false: the
\* worker returns and the deferred close(valStream) runs.
BridgeRecvEnd ==
    /\ brPc = "outer"
    /\ brOuterClosed
    /\ brPc' = "done"
    /\ brClosed' = brClosed + 1
    /\ UNCHANGED <<brLen, brWillClose, brOuterWillClose, brOuterClosed, brNext,
                   brVal>>
    /\ UNCHANGED <<envVars, odVars, orVars, takeVars, fiVars, teeVars, bufVars, tailVars>>

\* Outer select, case <-done: the worker returns and closes valStream.
BridgeSelectDone ==
    /\ brPc = "outer"
    /\ done
    /\ brPc' = "done"
    /\ brClosed' = brClosed + 1
    /\ UNCHANGED <<brLen, brWillClose, brOuterWillClose, brOuterClosed, brNext,
                   brVal>>
    /\ UNCHANGED <<envVars, odVars, orVars, takeVars, fiVars, teeVars, bufVars, tailVars>>

\* for val := range orDone(done, stream): the relay's send meets the worker's
\* receive.
BridgeRange ==
    /\ brPc = "range"
    /\ odPc = "send"
    /\ odPc' = "select"
    /\ brVal' = odVal
    /\ brPc' = "send"
    /\ UNCHANGED <<brLen, brWillClose, brOuterWillClose, brOuterClosed, brNext,
                   brClosed>>
    /\ UNCHANGED <<odVal, odGot, odClosed, envVars, orVars, takeVars, fiVars,
                   teeVars, bufVars, tailVars>>

\* A plausible slip: a receive that does not wait, so that a relay with no
\* value at hand ends the loop.
BridgeRangeOverWhenQuiet == odClosed > 0 \/ odPc = "select"

\* The range loop over the relay's output ends: the output is closed.
BridgeRangeOver == odClosed > 0

\* The relay's output is closed: the range loop ends and the worker is back
\* at the outer select.
BridgeRangeEnd ==
    /\ brPc = "range"
    /\ BridgeRangeOver
    /\ brPc' = "outer"
    /\ UNCHANGED <<brLen, brWillClose, brOuterWillClose, brOuterClosed, brNext,
                   brVal, brClosed>>
    /\ UNCHANGED <<envVars, odVars, orVars, takeVars, fiVars, teeVars, bufVars, tailVars>>

\* A plausible slip: after one value the worker asks for the next stream.
BridgeAfterSendLeaves == "outer"

\* Where the worker is after the inner select: at the range loop.
BridgeAfterSend == "range"

\* Inner select, case valStream <- val: the send meets the consumer's receive.
BridgeSend ==
    /\ brPc = "send"
    /\ out' = Append(out, brVal)
    /\ brPc' = BridgeAfterSend
    /\ UNCHANGED <<brLen, brWillClose, brOuterWillClose, brOuterClosed, brNext,
                   brVal, brClosed>>
    /\ UNCHANGED <<done, source, srcNext, srcWillClose, srcClosed, otherGot>>
    /\ UNCHANGED <<odVars, orVars, takeVars, fiVars, teeVars, bufVars, tailVars>>

\* A plausible slip: a plain send valStream <- val, without the done case.
BridgeInnerDoneMissing == FALSE

\* The done case of the inner select can proceed.
BridgeInnerDone == done

\* Inner select, case <-done: val is dropped.
BridgeSendDone ==
    /\ brPc = "send"
    /\ BridgeInnerDone
    /\ brPc' = BridgeAfterSend
    /\ UNCHANGED <<brLen, brWillClose, brOuterWillClose, brOuterClosed, brNext,
                   brVal, brClosed>>
    /\ UNCHANGED <<envVars, odVars, orVars, takeVars, fiVars, teeVars, bufVars, tailVars>>

BridgeWorker ==
    \/ BridgeRecvStream
    \/ BridgeRecvEnd
    \/ BridgeSelectDone
    \/ BridgeRange
    \/ BridgeRangeEnd
    \/ BridgeSend
    \/ BridgeSendDone

\* The steps the worker takes without a consumer receiving from valStream
\* and without a producer sending on or closing chanStream.
BridgeAlone ==
    \/ BridgeSelectDone
    \/ BridgeRange
    \/ BridgeRangeEnd
    \/ BridgeSendDone

BridgeNext ==
    \/ BridgeCloseOuter
    \/ BridgeRecvStream
    \/ BridgeRecvEnd
    \/ BridgeSelectDone
    \/ BridgeRange
    \/ BridgeRangeEnd
    \/ BridgeSend
    \/ BridgeSendDone
    \/ OrDoneSelectDone
    \/ OrDoneRecv
    \/ OrDoneSendDone
    \/ CloseDone /\ UNCHANGED <<takeVars, orVars, odVars, moreVars>>
    \/ CloseSource /\ UNCHANGED <<takeVars, orVars, odVars, moreVars>>

SpecBridge == BridgeInit /\ [][BridgeNext]_vars

\* Both goroutines are scheduled whenever they can run, the consumer keeps
\* receiving from valStream, and a producer that is to close its stream does
\* so. Nobody is obliged to close done.
FairSpecBridge ==
    /\ SpecBridge
    /\ WF_vars(BridgeWorker)
    /\ WF_vars(OrDoneAlone)
    /\ WF_vars(BridgeCloseOuter)
    /\ WF_vars(CloseSource /\ UNCHANGED <<takeVars, orVars, odVars, moreVars>>)

\* The goroutines are scheduled whenever they can run without a partner:
\* no consumer is obliged to receive from valStream, no producer to send on
\* or close a stream.
FairSpecBridgeAlone ==
    /\ SpecBridge
    /\ WF_vars(BridgeAlone)
    /\ WF_vars(OrDoneAlone)

(* -------------------- BufferChannel and ThrottleChannel ---------------- *)

\* The variables of the combinators a run of BufferChannel leaves alone.
notBufVars == <<orVars, takeVars, fiVars, teeVars, brVars, tailVars>>

\* make(chan interface{}, limit) with limit 0 and make(chan interface{})
\* give a channel without a buffer: a send on it meets a receive.
BufferUnbuffered == bufKind = "throttle" \/ bufLimit = 0

\* Where the worker is once it holds val: ThrottleChannel sends on tokens
\* first.
BufferAfterRange == IF bufKind = "throttle" THEN "acquire" ELSE "send"

\* Where the worker is after its send: ThrottleChannel receives from tokens.
BufferAfterSend == IF bufKind = "throttle" THEN "release" ELSE "range"

BufferInit ==
    /\ EnvInit
    /\ odPc = "select"
    /\ odVal = ZeroValue
    /\ odGot = <<>>
    /\ odClosed = 0
    /\ bufKind \in {"buffer", "throttle"}
    /\ bufLimit \in 0 .. MaxLimit
    /\ bufPc = "range"
    /\ bufVal = ZeroValue
    /\ bufQueue = <<>>
    /\ bufTokens = 0
    /\ bufClosed = 0
    /\ bufTokClosed = 0
    /\ OrIdle
    /\ TakeIdle
    /\ FanInIdle
    /\ TeeIdle
    /\ BridgeIdle
    /\ TailIdle

\* for val := range orDone(done, in): the relay's send meets the worker's
\* receive.
BufferRange ==
    /\ bufPc = "range"
    /\ odPc = "send"
    /\ odPc' = "select"
    /\ bufVal' = odVal
    /\ bufPc' = BufferAfterRange
    /\ UNCHANGED <<bufKind, bufLimit, bufQueue, bufTokens, bufClosed,
                   bufTokClosed>>
    /\ UNCHANGED <<odVal, odGot, odClosed, envVars, notBufVars>>

\* The relay's output is closed: the range loop ends, the worker returns and
\* the deferred closes run.
BufferRangeEnd ==
    /\ bufPc = "range"
    /\ odClosed > 0
    /\ bufPc' = "done"
    /\ bufClosed' = bufClosed + 1
    /\ bufTokClosed' = IF bufKind = "throttle" THEN bufTokClosed + 1
                                               ELSE bufTokClosed
    /\ UNCHANGED <<bufKind, bufLimit, bufVal, bufQueue, bufTokens>>
    /\ UNCHANGED <<odVars, envVars, notBufVars>>

\* tokens <- struct{}{}: there is room in the buffer of tokens. Nobody
\* else receives from tokens, so without a buffer the send never completes.
ThrottleAcquire ==
    /\ bufPc = "acquire"
    /\ bufTokens < bufLimit
    /\ bufTokens' = bufTokens + 1
    /\ bufPc' = "send"
    /\ UNCHANGED <<bufKind, bufLimit, bufVal, bufQueue, bufClosed, bufTokClosed>>
    /\ UNCHANGED <<odVars, envVars, notBufVars>>

\* case <-done: the worker returns and the deferred closes run.
BufferSelectDone ==
    /\ bufPc = "send"
    /\ done
    /\ bufPc' = "done"
    /\ bufClosed' = bufClosed + 1
    /\ bufTokClosed' = IF bufKind = "throttle" THEN bufTokClosed + 1
                                               ELSE bufTokClosed
    /\ UNCHANGED <<bufKind, bufLimit, bufVal, bufQueue, bufTokens>>
    /\ UNCHANGED <<odVars, envVars, notBufVars>>

\* case interfaceChannel <- val on a channel with a buffer: there is room.
BufferSendBuffered ==
    /\ bufPc = "send"
    /\ ~BufferUnbuffered
    /\ Len(bufQueue) < bufLimit
    /\ bufQueue' = Append(bufQueue, bufVal)
    /\ bufPc' = BufferAfterSend
    /\ UNCHANGED <<bufKind, bufLimit, bufVal, bufTokens, bufClosed, bufTokClosed>>
    /\ UNCHANGED <<odVars, envVars, notBufVars>>

\* case interfaceChannel <- val on a channel without a buffer: the send
\* meets the consumer's receive.
BufferSendDirect ==
    /\ bufPc = "send"
    /\ BufferUnbuffered
    /\ out' = Append(out, bufVal)
    /\ bufPc' = BufferAfterSend
    /\ UNCHANGED <<bufKind, bufLimit, bufVal, bufQueue, bufTokens, bufClosed,
                   bufTokClosed>>
    /\ UNCHANGED <<done, source, srcNext, srcWillClose, srcClosed, otherGot>>
    /\ UNCHANGED <<odVars, notBufVars>>

\* <-tokens after the send.
ThrottleRelease ==
    /\ bufPc = "release"
    /\ bufTokens > 0
    /\ bufTokens' = bufTokens - 1
    /\ bufPc' = "range"
    /\ UNCHANGED <<bufKind, bufLimit, bufVal, bufQueue, bufClosed, bufTokClosed>>
    /\ UNCHANGED <<odVars, envVars, notBufVars>>

\* The consumer receives the oldest value in the buffer of interfaceChannel.
BufferReceive ==
    /\ bufQueue # <<>>
    /\ out' = Append(out, Head(bufQueue))
    /\ bufQueue' = Tail(bufQueue)
    /\ UNCHANGED <<bufKind, bufLimit, bufPc, bufVal, bufTokens, bufClosed,
                   bufTokClosed>>
    /\ UNCHANGED <<done, source, srcNext, srcWillClose, srcClosed, otherGot>>
    /\ UNCHANGED <<odVars, notBufVars>>

BufferWorker ==
    \/ BufferRange
    \/ BufferRangeEnd
    \/ ThrottleAcquire
    \/ BufferSelectDone
    \/ BufferSendBuffered
    \/ BufferSendDirect
    \/ ThrottleRelease

BufferNext ==
    \/ BufferRange
    \/ BufferRangeEnd
    \/ ThrottleAcquire
    \/ BufferSelectDone
    \/ BufferSendBuffered
    \/ BufferSendDirect
    \/ ThrottleRelease
    \/ BufferReceive
    \/ OrDoneSelectDone
    \/ OrDoneRecv
    \/ OrDoneSendDone
    \/ CloseDone /\ UNCHANGED <<takeVars, orVars, odVars, moreVars>>
    \/ CloseSource /\ UNCHANGED <<takeVars, orVars, odVars, moreVars>>

SpecBuffer == BufferInit /\ [][BufferNext]_vars

(* --- RepeatValueChannel, RepeatFnChannel, GeneratorToChannel ----------- *)

\* The variables of the combinators a run of a generator leaves alone.
notGenVars == <<orVars, takeVars, odVars, fiVars, teeVars, brVars, bufVars,
                totVars, wkVars>>

\* The variables of the environment a generator does not use.
genEnvRest == <<source, srcNext, srcWillClose, srcClosed, otherGot>>

\* What the k-th call of fn returns.
GenFn(k) == (k % MaxVal) + 1

\* The first position of "for _, v := range values".
GenFirst == 1

\* Where each worker starts: RepeatValueChannel at its outer for,
\* RepeatFnChannel at the select, whose send operand fn() is evaluated on
\* entry, the slice generators at their range loop.
GenStart(kind) ==
    IF kind = "repeatValue" THEN "for"
    ELSE IF kind = "repeatFn" THEN "call" ELSE "range"

GenInit ==
    /\ genKind \in {"repeatValue", "repeatFn", "slice"}
    /\ genValues \in (IF genKind = "repeatFn"
                         THEN {<<>>} ELSE SeqsUpTo(Values, MaxListLen))
    /\ genIdx = GenFirst
    /\ genPc = GenStart(genKind)
    /\ genVal = ZeroValue
    /\ genCalls = 0
    /\ genQueue = <<>>
    /\ genClosed = 0
    /\ EnvIdle
    /\ OrIdle
    /\ TakeIdle
    /\ OrDoneIdle
    /\ FanInIdle
    /\ TeeIdle
    /\ BridgeIdle
    /\ BufferIdle
    /\ ToTIdle
    /\ WorkersIdle

\* RepeatValueChannel, "for {": the range loop over values starts again.
RepeatValueFor ==
    /\ genKind = "repeatValue"
    /\ genPc = "for"
    /\ genIdx' = GenFirst
    /\ genPc' = "range"
    /\ UNCHANGED <<genKind, genValues, genVal, genCalls, genQueue, genClosed>>
    /\ UNCHANGED <<envVars, notGenVars>>

\* A plausible slip: one pass over values, without the outer for.
RepeatValueOnePass == "done"

\* Where the worker of RepeatValueChannel is after the range loop: at the
\* outer for.
RepeatValueAfterRange == "for"

\* Where a worker is when its range loop has ended: the slice generators
\* return.
GenAfterRange == IF genKind = "repeatValue" THEN RepeatValueAfterRange ELSE "done"

\* "for _, v := range values", "for _, i := range slice": the loop offers
\* the next value in a select or ends; a worker that returns runs its
\* deferred close.
GenRange ==
    /\ genPc = "range"
    /\ IF genIdx <= Len(genValues)
         THEN /\ genVal' = genValues[genIdx]
              /\ genPc' = "select"
              /\ UNCHANGED genClosed
         ELSE /\ genPc' = GenAfterRange
              /\ genClosed' = IF GenAfterRange = "done" THEN genClosed + 1
                                                        ELSE genClosed
              /\ UNCHANGED genVal
    /\ UNCHANGED <<genKind, genValues, genIdx, genCalls, genQueue>>
    /\ UNCHANGED <<envVars, notGenVars>>

\* RepeatFnChannel: entering the select evaluates the operand fn() of the
\* send case, whatever the state of done.
RepeatFnCall ==
    /\ genKind = "repeatFn"
    /\ genPc = "call"
    /\ genVal' = GenFn(genCalls)
    /\ genCalls' = genCalls + 1
    /\ genPc' = "select"
    /\ UNCHANGED <<genKind, genValues, genIdx, genQueue, genClosed>>
    /\ UNCHANGED <<envVars, notGenVars>>

\* case <-done: the worker returns and the deferred close runs.
GenSelectDone ==
    /\ genPc = "select"
    /\ done
    /\ genPc' = "done"
    /\ genClosed' = genClosed + 1
    /\ UNCHANGED <<genKind, genValues, genIdx, genVal, genCalls, genQueue>>
    /\ UNCHANGED <<envVars, notGenVars>>

\* A plausible slip: the loop steps over a value.
GenAfterSendSkips(i) == i + 2

\* The position of the range loop after a send.
GenAfterSend(i) == i + 1

\* case valStream <- v, case valStream <- fn(): the channel has no buffer,
\* the send meets the consumer's receive.
RepeatSend ==
    /\ genKind \in {"repeatValue", "repeatFn"}
    /\ genPc = "select"
    /\ Len(out) < MaxEmit
    /\ out' = Append(out, genVal)
    /\ genIdx' = IF genKind = "repeatValue" THEN GenAfterSend(genIdx) ELSE genIdx
    /\ genPc' = IF genKind = "repeatValue" THEN "range" ELSE "call"
    /\ UNCHANGED <<genKind, genValues, genVal, genCalls, genQueue, genClosed>>
    /\ UNCHANGED <<done, genEnvRest, notGenVars>>

\* case interfaceChannel <- i: the buffer has room for len(slice) values, so
\* the send never waits.
GeneratorSend ==
    /\ genKind = "slice"
    /\ genPc = "select"
    /\ Len(genQueue) < Len(genValues)
    /\ genQueue' = Append(genQueue, genVal)
    /\ genIdx' = GenAfterSend(genIdx)
    /\ genPc' = "range"
    /\ UNCHANGED <<genKind, genValues, genVal, genCalls, genClosed>>
    /\ UNCHANGED <<envVars, notGenVars>>

\* The consumer receives the oldest value in the buffer of interfaceChannel.
GeneratorReceive ==
    /\ genQueue # <<>>
    /\ out' = Append(out, Head(genQueue))
    /\ genQueue' = Tail(genQueue)
    /\ UNCHANGED <<genKind, genValues, genIdx, genPc, genVal, genCalls, genClosed>>
    /\ UNCHANGED <<done, genEnvRest, notGenVars>>

GenWorker ==
    \/ RepeatValueFor
    \/ GenRange
    \/ RepeatFnCall
    \/ GenSelectDone
    \/ RepeatSend
    \/ GeneratorSend

GenNext ==
    \/ RepeatValueFor
    \/ GenRange
    \/ RepeatFnCall
    \/ GenSelectDone
    \/ RepeatSend
    \/ GeneratorSend
    \/ GeneratorReceive
    \/ CloseDone /\ UNCHANGED <<takeVars, orVars, odVars, moreVars>>

SpecGen == GenInit /\ [][GenNext]_vars

\* The worker goroutine is scheduled whenever it can run and the consumer
\* keeps receiving. Nobody is obliged to close done.
FairSpecGen ==
    /\ SpecGen
    /\ WF_vars(GenWorker)
    /\ WF_vars(GeneratorReceive)

(* ------------------------------- ToTChannel ---------------------------- *)

\* The variables of the combinators a run of ToTChannel leaves alone.
notToTVars == <<orVars, takeVars, odVars, fiVars, teeVars, brVars, bufVars,
                genVars, wkVars>>

\* The interface{} value the input stream carries for the source value v:
\* the dynamic type and the value. T is int; the value 1 stands for an
\* element of another type.
ToTBox(v) == [type |-> IF v = 1 THEN "string" ELSE "int", val |-> v]

\* v.(T): the value of type T in x, or a run-time panic.
ToTAssert(x) == [ok |-> x.type = "int", val |-> x.val]

ToTInit ==
    /\ EnvInit
    /\ totPc = "range"
    /\ totVal = ZeroValue
    /\ totClosed = 0
    /\ totPanic = FALSE
    /\ totSawEnd = FALSE
    /\ OrIdle
    /\ TakeIdle
    /\ OrDoneIdle
    /\ FanInIdle
    /\ TeeIdle
    /\ BridgeIdle
    /\ BufferIdle
    /\ GenIdle
    /\ WorkersIdle

\* for v := range valueStream, then the operand v.(T) of the send case,
\* evaluated on entry to the select: on a closed input the worker returns
\* and the deferred close(theStream) runs; a value of another type makes the
\* goroutine panic.
ToTRange ==
    /\ totPc = "range"
    /\ SrcReady
    /\ IF ~SrcOk
         THEN /\ totPc' = "done"
              /\ totClosed' = totClosed + 1
              /\ UNCHANGED <<totVal, totPanic, srcNext>>
         ELSE /\ srcNext' = srcNext + 1
              /\ IF ToTAssert(ToTBox(SrcValue)).ok
                   THEN /\ totVal' = ToTAssert(ToTBox(SrcValue)).val
                        /\ totPc' = "select"
                        /\ UNCHANGED totPanic
                   ELSE /\ totPanic' = TRUE
                        /\ totPc' = "panicking"
                        /\ UNCHANGED totVal
              /\ UNCHANGED totClosed
    /\ UNCHANGED totSawEnd
    /\ UNCHANGED <<done, source, srcWillClose, srcClosed, otherGot, out>>
    /\ UNCHANGED notToTVars

\* case <-done: the worker returns and the deferred close(theStream) runs.
ToTSelectDone ==
    /\ totPc = "select"
    /\ done
    /\ totPc' = "done"
    /\ totClosed' = totClosed + 1
    /\ UNCHANGED <<totVal, totPanic, totSawEnd, envVars, notToTVars>>

\* case theStream <- v.(T): the send meets the consumer's receive.
ToTSend ==
    /\ totPc = "select"
    /\ out' = Append(out, totVal)
    /\ totPc' = "range"
    /\ UNCHANGED <<totVal, totClosed, totPanic, totSawEnd, notToTVars>>
    /\ UNCHANGED <<done, source, srcNext, srcWillClose, srcClosed, otherGot>>

\* The panicking goroutine runs its deferred call: close(theStream).
ToTPanicDefer ==
    /\ totPc = "panicking"
    /\ totPc' = "fatal"
    /\ totClosed' = totClosed + 1
    /\ UNCHANGED <<totVal, totPanic, totSawEnd, envVars, notToTVars>>

\* Nothing recovers the panic: the run-time reports it and ends the program.
ToTExit ==
    /\ totPc = "fatal"
    /\ totPc' = "exited"
    /\ UNCHANGED <<totVal, totClosed, totPanic, totSawEnd, envVars, notToTVars>>

\* The consumer's receive on the closed theStream: the end of the stream.
ToTSeeEnd ==
    /\ totPc # "exited"
    /\ totClosed > 0
    /\ ~totSawEnd
    /\ totSawEnd' = TRUE
    /\ UNCHANGED <<totPc, totVal, totClosed, totPanic, envVars, notToTVars>>

ToTWorker ==
    \/ ToTRange
    \/ ToTSelectDone
    \/ ToTSend
    \/ ToTPanicDefer
    \/ ToTExit

ToTNext ==
    \/ ToTRange
    \/ ToTSelectDone
    \/ ToTSend
    \/ ToTPanicDefer
    \/ ToTExit
    \/ ToTSeeEnd
    \/ totPc # "exited" /\ CloseDone
           /\ UNCHANGED <<takeVars, orVars, odVars, moreVars>>
    \/ totPc # "exited" /\ CloseSource
           /\ UNCHANGED <<takeVars, orVars, odVars, moreVars>>

SpecToT == ToTInit /\ [][ToTNext]_vars

\* The worker goroutine is scheduled whenever it can run, the consumer keeps
\* receiving from theStream, and a producer that is to close its stream
\* does so.
FairSpecToT ==
    /\ SpecToT
    /\ WF_vars(ToTWorker)
    /\ WF_vars(totPc # "exited" /\ CloseSource
                   /\ UNCHANGED <<takeVars, orVars, odVars, moreVars>>)

(* ------------------- calls with arguments out of range ----------------- *)

\* TakeChannel called with any count, a negative one included: nothing in
\* the call looks at num before the goroutine starts.
TakeAnyInit ==
    /\ EnvInit
    /\ takeNum \in -MaxTake .. MaxTake
    /\ takeI = 0
    /\ takePc = "loop"
    /\ takeVal = ZeroValue
    /\ takeReads = 0
    /\ takeClosed = 0
    /\ OrIdle
    /\ OrDoneIdle
    /\ MoreIdle

\* A call of TakeChannel with any count, or of BufferChannel or
\* ThrottleChannel with any limit from 0.
AnyCallInit == TakeAnyInit \/ BufferInit

AnyCallNext ==
    \/ TakeLoop
    \/ TakeRecv
    \/ TakeSelectDone
    \/ TakeSend
    \/ BufferRange
    \/ BufferRangeEnd
    \/ ThrottleAcquire
    \/ BufferSelectDone
    \/ BufferSendBuffered
    \/ BufferSendDirect
    \/ ThrottleRelease
    \/ BufferReceive
    \/ OrDoneSelectDone
    \/ OrDoneRecv
    \/ OrDoneSendDone
    \/ CloseDone /\ UNCHANGED <<takeVars, orVars, odVars, moreVars>>
    \/ CloseSource /\ UNCHANGED <<takeVars, orVars, odVars, moreVars>>

SpecAnyCall == AnyCallInit /\ [][AnyCallNext]_vars

(* ------------- the combinators that close a shared output ------------- *)

\* A call of OrChannel, of FanInChannel or of TeeChannel.
CloserInit == OrInit \/ FanInInit \/ TeeInit

\* The steps of the combinator that was called.
CloserNext ==
    \/ ~OrIdle /\ OrNext
    \/ ~FanInIdle /\ FanInNext
    \/ ~TeeIdle /\ TeeNext

SpecCloser == CloserInit /\ [][CloserNext]_vars

(* ------ TestBufferChannel: BufferChannel, sleepers, FanInChannel ------- *)

\* bufferedChan := buffer(done, nameGenerator(done, names), limit), numSleepers
\* sleepers that all read bufferedChan, and fanIn(done, sleepers...): the
\* names are different from each other, the generator closes its stream
\* after the last one, and the inputs of FanInChannel are the sleepers'
\* outputs, which have no producer but the sleeper. done is closed by the
\* test's deferred close(done), once the range over the final stream has
\* ended: no goroutine is at a select by then (BufPipeDoneUnused), so the
\* done cases of the selects never run in this program.
BufPipeInit ==
    /\ done = FALSE
    /\ \E n \in 0 .. MaxSrcLen : source = [k \in 1 .. n |-> k]
    /\ srcNext = 1
    /\ srcWillClose = TRUE
    /\ srcClosed = FALSE
    /\ otherGot = 0
    /\ out = <<>>
    /\ odPc = "select"
    /\ odVal = ZeroValue
    /\ odGot = <<>>
    /\ odClosed = 0
    /\ bufKind = "buffer"
    /\ bufLimit \in 0 .. MaxLimit
    /\ bufPc = "range"
    /\ bufVal = ZeroValue
    /\ bufQueue = <<>>
    /\ bufTokens = 0
    /\ bufClosed = 0
    /\ bufTokClosed = 0
    /\ fiM \in 2 .. MaxFanIn
    /\ fiLen = [j \in 1 .. fiM |-> 0]
    /\ fiWillClose = [j \in 1 .. fiM |-> FALSE]
    /\ fiInClosed = [j \in 1 .. fiM |-> FALSE]
    /\ fiNext = [j \in 1 .. fiM |-> 1]
    /\ fiPc = [j \in 1 .. fiM |-> "range"]
    /\ fiVal = [j \in 1 .. fiM |-> ZeroValue]
    /\ fiWg = fiM
    /\ fiCloserPc = "wait"
    /\ fiClosed = 0
    /\ fiOut = [v \in {} |-> 0]
    /\ fiPanic = FALSE
    /\ wkRelayPc = [i \in 1 .. fiM |-> "select"]
    /\ wkRelayVal = [i \in 1 .. fiM |-> ZeroValue]
    /\ wkRelayClosed = [i \in 1 .. fiM |-> 0]
    /\ wkPc = [i \in 1 .. fiM |-> "range"]
    /\ wkVal = [i \in 1 .. fiM |-> ZeroValue]
    /\ OrIdle
    /\ TakeIdle
    /\ TeeIdle
    /\ BridgeIdle
    /\ GenIdle
    /\ ToTIdle

\* A plausible slip: a receive that leaves the value in the buffer.
BufPipeAfterRecvKeeps(q) == q

\* The buffer of bufferedChan after a receive.
BufPipeAfterRecv(q) == Tail(q)

\* orDone(done, valueStream) of sleeper i, case v, ok := <-c on
\* bufferedChan: the oldest value in the buffer; without a buffer, the value BufferChannel's worker is
\* sending; on the closed and empty channel ok is false, the relay returns
\* and closes valStream.
SleeperRelayRecv(i) ==
    /\ i \in 1 .. fiM
    /\ wkRelayPc[i] = "select"
    /\ \/ /\ bufQueue # <<>>
          /\ wkRelayVal' = [wkRelayVal EXCEPT ![i] = Head(bufQueue)]
          /\ bufQueue' = BufPipeAfterRecv(bufQueue)
          /\ wkRelayPc' = [wkRelayPc EXCEPT ![i] = "send"]
          /\ UNCHANGED <<bufPc, wkRelayClosed>>
       \/ /\ BufferUnbuffered
          /\ bufPc = "send"
          /\ wkRelayVal' = [wkRelayVal EXCEPT ![i] = bufVal]
          /\ bufPc' = BufferAfterSend
          /\ wkRelayPc' = [wkRelayPc EXCEPT ![i] = "send"]
          /\ UNCHANGED <<bufQueue, wkRelayClosed>>
       \/ /\ bufQueue = <<>>
          /\ bufClosed > 0
          /\ OrDoneInputEnded(FALSE)
          /\ wkRelayPc' = [wkRelayPc EXCEPT ![i] = "done"]
          /\ wkRelayClosed' = [wkRelayClosed EXCEPT ![i] = @ + 1]
          /\ UNCHANGED <<bufQueue, bufPc, wkRelayVal>>
    /\ UNCHANGED <<bufKind, bufLimit, bufVal, bufTokens, bufClosed,
                   bufTokClosed, wkPc, wkVal>>
    /\ UNCHANGED <<orVars, envVars, takeVars, odVars, fiVars, teeVars, brVars,
                   genVars, totVars>>

\* sleeper i, for val := range orDone(done, valueStream): the relay's send
\* meets the receive.
SleeperRange(i) ==
    /\ i \in 1 .. fiM
    /\ wkPc[i] = "range"
    /\ wkRelayPc[i] = "send"
    /\ wkVal' = [wkVal EXCEPT ![i] = wkRelayVal[i]]
    /\ wkPc' = [wkPc EXCEPT ![i] = "select"]
    /\ wkRelayPc' = [wkRelayPc EXCEPT ![i] = "select"]
    /\ UNCHANGED <<wkRelayVal, wkRelayClosed>>
    /\ UNCHANGED <<orVars, envVars, takeVars, odVars, fiVars, teeVars, brVars,
                   bufVars, genVars, totVars>>

\* The relay's output is closed: the range loop ends, the sleeper returns
\* and the deferred close(out) runs.
SleeperRangeEnd(i) ==
    /\ i \in 1 .. fiM
    /\ wkPc[i] = "range"
    /\ wkRelayClosed[i] > 0
    /\ wkPc' = [wkPc EXCEPT ![i] = "done"]
    /\ fiInClosed' = [fiInClosed EXCEPT ![i] = TRUE]
    /\ UNCHANGED <<wkRelayPc, wkRelayVal, wkRelayClosed, wkVal>>
    /\ UNCHANGED <<fiM, fiLen, fiWillClose, fiNext, fiPc, fiVal, fiWg,
                   fiCloserPc, fiClosed, fiOut, fiPanic>>
    /\ UNCHANGED <<orVars, envVars, takeVars, odVars, teeVars, brVars, bufVars,
                   genVars, totVars>>

\* Worker i (a sleeper, a primeFinder), case out <- val, case primeStream <-
\* integer: the send meets the receive of "for i := range c" in the
\* multiplex goroutine of FanInChannel that reads the worker's output.
WorkerSend(i) ==
    /\ i \in 1 .. fiM
    /\ wkPc[i] = "select"
    /\ fiPc[i] = "range"
    /\ fiVal' = [fiVal EXCEPT ![i] = wkVal[i]]
    /\ fiPc' = [fiPc EXCEPT ![i] = "select"]
    /\ wkPc' = [wkPc EXCEPT ![i] = "range"]
    /\ UNCHANGED <<wkRelayPc, wkRelayVal, wkRelayClosed, wkVal>>
    /\ UNCHANGED <<fiM, fiLen, fiWillClose, fiInClosed, fiNext, fiWg,
                   fiCloserPc, fiClosed, fiOut, fiPanic>>
    /\ UNCHANGED <<orVars, envVars, takeVars, odVars, teeVars, brVars, bufVars,
                   genVars, totVars>>

\* defer close(done) of the test: the range over the final stream has ended.
BufPipeCloseDone ==
    /\ fiClosed > 0
    /\ CloseDone
    /\ UNCHANGED <<takeVars, orVars, odVars, moreVars>>

BufPipeNext ==
    \/ CloseSource /\ UNCHANGED <<takeVars, orVars, odVars, moreVars>>
    \/ OrDoneRecv
    \/ BufferRange
    \/ BufferRangeEnd
    \/ BufferSendBuffered
    \/ \E i \in 1 .. MaxFanIn : SleeperRelayRecv(i)
    \/ \E i \in 1 .. MaxFanIn : SleeperRange(i)
    \/ \E i \in 1 .. MaxFanIn : SleeperRangeEnd(i)
    \/ \E i \in 1 .. MaxFanIn : WorkerSend(i)
    \/ \E j \in 1 .. MaxFanIn : FanInRange(j)
    \/ \E j \in 1 .. MaxFanIn : FanInSend(j)
    \/ FanInClose
    \/ BufPipeCloseDone

SpecBufPipe == BufPipeInit /\ [][BufPipeNext]_vars

\* The program does not stop while a goroutine can run: the final consumer
\* keeps receiving and the generator closes its stream.
FairSpecBufPipe == SpecBufPipe /\ WF_vars(BufPipeNext)

(* -- TestFanIn: RepeatFnChannel, ToTChannel, primeFinders, FanIn, Take --- *)

\* What rand returns: an int, here one the primeFinder passes on or one it
\* drops.
RandValues == {3, 4}

\* prime after "for divisor := (integer + 1) / 2; divisor > 1; divisor--".
FinderPrime(integer) ==
    \A divisor \in 2 .. ((integer + 1) \div 2) : integer % divisor # 0

\* randIntStream := toInt(done, repeatFn(done, rand)), numFinders
\* primeFinders that all read randIntStream, and take(done, fanIn(done,
\* finders...), num); out is what the range loop of the test received. The
\* calls of rand are not counted.
FanPipeInit ==
    /\ done = FALSE
    /\ source = <<>>
    /\ srcNext = 1
    /\ srcWillClose = FALSE
    /\ srcClosed = FALSE
    /\ otherGot = 0
    /\ out = <<>>
    /\ genKind = "repeatFn"
    /\ genValues = <<>>
    /\ genIdx = GenFirst
    /\ genPc = "select"
    /\ genVal = ZeroValue
    /\ genCalls = 0
    /\ genQueue = <<>>
    /\ genClosed = 0
    /\ totPc = "range"
    /\ totVal = ZeroValue
    /\ totClosed = 0
    /\ totPanic = FALSE
    /\ totSawEnd = FALSE
    /\ fiM \in 1 .. MaxFanIn
    /\ fiLen = [j \in 1 .. fiM |-> 0]
    /\ fiWillClose = [j \in 1 .. fiM |-> FALSE]
    /\ fiInClosed = [j \in 1 .. fiM |-> FALSE]
    /\ fiNext = [j \in 1 .. fiM |-> 1]
    /\ fiPc = [j \in 1 .. fiM |-> "range"]
    /\ fiVal = [j \in 1 .. fiM |-> ZeroValue]
    /\ fiWg = fiM
    /\ fiCloserPc = "wait"
    /\ fiClosed = 0
    /\ fiOut = [v \in {} |-> 0]
    /\ fiPanic = FALSE
    /\ wkRelayPc = [i \in 1 .. fiM |-> "done"]
    /\ wkRelayVal = [i \in 1 .. fiM |-> ZeroValue]
    /\ wkRelayClosed = [i \in 1 .. fiM |-> 0]
    /\ wkPc = [i \in 1 .. fiM |-> "range"]
    /\ wkVal = [i \in 1 .. fiM |-> ZeroValue]
    /\ takeNum \in 0 .. MaxTake
    /\ takeI = 0
    /\ takePc = "loop"
    /\ takeVal = ZeroValue
    /\ takeReads = 0
    /\ takeClosed = 0
    /\ OrIdle
    /\ OrDoneIdle
    /\ TeeIdle
    /\ BridgeIdle
    /\ BufferIdle

\* RepeatFnChannel, case valStream <- fn(): rand, called on entry to the
\* select, returned v, and the send meets the receive of "for v := range
\* valueStream" in ToTChannel's worker, which then evaluates the operand
\* v.(T) of its send case; a value of another type makes that goroutine
\* panic. What rand returns depends on nothing in the program, so the call
\* is not a step of its own here and v is kept by the receiver only.
FanPipeToTRange(v) ==
    /\ genPc = "select"
    /\ totPc = "range"
    /\ IF ToTAssert(ToTBox(v)).ok
         THEN /\ totVal' = ToTAssert(ToTBox(v)).val
              /\ totPc' = "select"
              /\ UNCHANGED totPanic
         ELSE /\ totPanic' = TRUE
              /\ totPc' = "panicking"
              /\ UNCHANGED totVal
    /\ UNCHANGED <<genVars, totClosed, totSawEnd>>
    /\ UNCHANGED <<orVars, envVars, takeVars, odVars, fiVars, teeVars, brVars,
                   bufVars, wkVars>>

\* rand returned a number the primeFinder passes on.
FanPipeRandPrime ==
    \E v \in RandValues : FinderPrime(v) /\ FanPipeToTRange(v)

\* ToTChannel's range loop on the closed valStream: the worker returns and
\* the deferred close(theStream) runs.
FanPipeToTRangeEnd ==
    /\ totPc = "range"
    /\ genClosed > 0
    /\ totPc' = "done"
    /\ totClosed' = totClosed + 1
    /\ UNCHANGED <<totVal, totPanic, totSawEnd, envVars, notToTVars>>

\* primeFinder i, for integer := range intStream: the send of ToTChannel's
\* worker meets the receive; the finder goes to its select with a prime and
\* back to the range loop with another number, of which that iteration
\* keeps nothing.
FinderRange(i) ==
    /\ i \in 1 .. fiM
    /\ wkPc[i] = "range"
    /\ totPc = "select"
    /\ totPc' = "range"
    /\ wkVal' = IF FinderPrime(totVal) THEN [wkVal EXCEPT ![i] = totVal]
                                        ELSE wkVal
    /\ wkPc' = [wkPc EXCEPT ![i] = IF FinderPrime(totVal) THEN "select"
                                                         ELSE "range"]
    /\ UNCHANGED <<totVal, totClosed, totPanic, totSawEnd, wkRelayPc,
                   wkRelayVal, wkRelayClosed>>
    /\ UNCHANGED <<orVars, envVars, takeVars, odVars, fiVars, teeVars, brVars,
                   bufVars, genVars>>

\* A plausible slip: the closed intStream is not noticed.
FinderStreamEndedNever == FALSE

\* The range loop of a primeFinder finds intStream closed.
FinderStreamEnded == totClosed > 0

\* primeFinder i, the range loop on the closed intStream: the finder returns
\* and the deferred close(primeStream) runs.
FinderRangeEnd(i) ==
    /\ i \in 1 .. fiM
    /\ wkPc[i] = "range"
    /\ FinderStreamEnded
    /\ wkPc' = [wkPc EXCEPT ![i] = "done"]
    /\ fiInClosed' = [fiInClosed EXCEPT ![i] = TRUE]
    /\ UNCHANGED <<wkRelayPc, wkRelayVal, wkRelayClosed, wkVal>>
    /\ UNCHANGED <<fiM, fiLen, fiWillClose, fiNext, fiPc, fiVal, fiWg,
                   fiCloserPc, fiClosed, fiOut, fiPanic>>
    /\ UNCHANGED <<orVars, envVars, takeVars, odVars, teeVars, brVars, bufVars,
                   genVars, totVars>>

\* primeFinder i, case <-done: the finder returns and the deferred
\* close(primeStream) runs.
FinderSelectDone(i) ==
    /\ i \in 1 .. fiM
    /\ wkPc[i] = "select"
    /\ done
    /\ wkPc' = [wkPc EXCEPT ![i] = "done"]
    /\ fiInClosed' = [fiInClosed EXCEPT ![i] = TRUE]
    /\ UNCHANGED <<wkRelayPc, wkRelayVal, wkRelayClosed, wkVal>>
    /\ UNCHANGED <<fiM, fiLen, fiWillClose, fiNext, fiPc, fiVal, fiWg,
                   fiCloserPc, fiClosed, fiOut, fiPanic>>
    /\ UNCHANGED <<orVars, envVars, takeVars, odVars, teeVars, brVars, bufVars,
                   genVars, totVars>>

\* TakeChannel: entering the select evaluates the operand <-valueStream of
\* the send case, a receive on multiplexedStream that meets the send of
\* multiplex goroutine j, whatever the state of done.
FanPipeTakeRecv(j) ==
    /\ j \in 1 .. fiM
    /\ takePc = "recv"
    /\ fiPc[j] = "select"
    /\ fiClosed = 0
    /\ takeVal' = fiVal[j]
    /\ takeReads' = takeReads + 1
    /\ takePc' = "select"
    /\ fiPc' = [fiPc EXCEPT ![j] = "range"]
    /\ UNCHANGED <<takeNum, takeI, takeClosed>>
    /\ UNCHANGED <<fiM, fiLen, fiWillClose, fiInClosed, fiNext, fiVal, fiWg,
                   fiCloserPc, fiClosed, fiOut, fiPanic>>
    /\ UNCHANGED <<orVars, envVars, odVars, teeVars, restVars>>

\* defer close(done) of the test: the range over take's output has ended,
\* so TakeChannel's worker has returned and the done case of its select
\* never runs in this program.
FanPipeCloseDone ==
    /\ takeClosed > 0
    /\ CloseDone
    /\ UNCHANGED <<takeVars, orVars, odVars, moreVars>>

FanPipeNext ==
    \/ \E v \in RandValues : FanPipeToTRange(v)
    \/ GenSelectDone
    \/ FanPipeToTRangeEnd
    \/ ToTSelectDone
    \/ \E i \in 1 .. MaxFanIn : FinderRange(i)
    \/ \E i \in 1 .. MaxFanIn : FinderRangeEnd(i)
    \/ \E i \in 1 .. MaxFanIn : FinderSelectDone(i)
    \/ \E i \in 1 .. MaxFanIn : WorkerSend(i)
    \/ \E j \in 1 .. MaxFanIn : FanInRange(j)
    \/ \E j \in 1 .. MaxFanIn : FanInSelectDone(j)
    \/ \E j \in 1 .. MaxFanIn : FanPipeTakeRecv(j)
    \/ FanInClose
    \/ TakeLoop
    \/ TakeSend
    \/ FanPipeCloseDone

SpecFanPipe == FanPipeInit /\ [][FanPipeNext]_vars

\* The program does not stop while a goroutine can run and the test keeps
\* receiving; rand returns a prime again and again; and a select chooses at
\* random among the cases that can proceed, so RepeatFnChannel's worker,
\* whose done case stays ready once done is closed, takes it in the end.
FairSpecFanPipe ==
    /\ SpecFanPipe
    /\ WF_vars(FanPipeNext)
    /\ SF_vars(FanPipeRandPrime)
    /\ WF_vars(GenSelectDone)

(* --------------------------- OrChannel: claims ------------------------- *)

OrSomeInputClosed == \E i \in OrInputs : orClosed[i] > 0

OrAllTerminated == \A g \in 1 .. Len(orGo) : orGo[g].pc = "done"

\* C1: with two or more inputs, the returned channel is never closed while
\* none of the inputs is closed.
OrFiresNoEarlierThanInput ==
    (orN >= 2 /\ IsClosed(orClosed, orResult)) => OrSomeInputClosed

\* C1 witness: the caller received from the merge of at least four inputs
\* after exactly one of them closed.
OrFiredAfterOneInput ==
    /\ orN >= 4
    /\ orRecv
    /\ Cardinality({i \in OrInputs : orClosed[i] > 0}) = 1

\* C2: with two or more inputs, once any input is closed, at whatever
\* position, the returned channel is eventually closed.
OrFiresWhenAnyInputFires ==
    (orN >= 2 /\ OrSomeInputClosed) ~> IsClosed(orClosed, orResult)

\* C2 witness: the returned channel is closed and the only closed signal is
\* an input watched through the recursive call alone.
OrFiredFromDeepInput ==
    /\ orN >= 4
    /\ IsClosed(orClosed, orResult)
    /\ \E i \in OrInputs : orClosed[i] > 0
    /\ \A i \in Signals : orClosed[i] > 0 => (i >= 4 /\ i <= orN)

\* C3: with two or more inputs, once the returned channel is closed every
\* goroutine of the call and of its nested calls eventually terminates, also
\* when no further input closes.
OrGoroutinesTerminate ==
    (orN >= 2 /\ IsClosed(orClosed, orResult)) ~> OrAllTerminated

\* C3 witness: a nested call's goroutine exists, all goroutines have
\* terminated and a single input was closed, one of the first three.
OrNestedTerminated ==
    /\ Len(orGo) >= 2
    /\ OrAllTerminated
    /\ \E i \in 1 .. 3 : \A j \in Signals : orClosed[j] > 0 <=> j = i

\* C4: the result of a call without inputs never fires: it is never ready
\* for a receive and the caller's receive never completes.
OrZeroNeverFires ==
    orN = 0 => (~orRecv /\ ~IsClosed(orClosed, orResult))

\* C4 witness: the call had no inputs, signals of the environment closed
\* and the caller is still waiting.
OrZeroStillWaiting ==
    /\ orN = 0
    /\ orResult = Nil
    /\ \A i \in Signals : orClosed[i] > 0
    /\ ~orRecv

\* C5: a call with one input returns that input itself and spawns no
\* goroutine, so the caller's receive completes only once that input closed.
OrOneIsIdentity ==
    orN = 1 => /\ orResult = 1
               /\ Len(orGo) = 0
               /\ Len(orClosed) = MaxOrInputs
               /\ (orRecv => orClosed[1] > 0)

\* C5 witness: the caller received from the result of a one-input call.
OrOneFired == orN = 1 /\ orRecv /\ orResult = 1

(* -------------------------- TakeChannel: claims ------------------------ *)

IsPrefix(s, t) == Len(s) <= Len(t) /\ s = SubSeq(t, 1, Len(s))

\* The worker is the only reader of its source and done is open.
TakeUndisturbed == ~done /\ otherGot = 0

TakeFirstNum == SubSeq(source, 1, takeNum)

TakeOutputWithinFirstNum ==
    /\ (TakeUndisturbed /\ Len(source) >= takeNum) =>
           /\ IsPrefix(out, TakeFirstNum)
           /\ (takeClosed > 0 => out = TakeFirstNum)
    /\ takeNum = 0 => out = <<>>

\* C6: without cancellation and with a source of at least num values, the
\* output carries exactly the first num source values in order and is then
\* closed; with num = 0 it is closed without any value, whatever the source.
TakeYieldsFirstNum ==
    /\ []TakeOutputWithinFirstNum
    /\ (TakeUndisturbed /\ Len(source) >= takeNum)
           ~> (takeClosed > 0 \/ ~TakeUndisturbed)
    /\ (takeNum = 0) ~> (takeClosed > 0 /\ out = <<>>)

\* C6 witness: the output is closed after two or more values were taken from
\* a longer source, done still open.
TakeTookFirstNum ==
    /\ takeNum >= 2
    /\ Len(source) > takeNum
    /\ TakeUndisturbed
    /\ takeClosed = 1
    /\ out = TakeFirstNum

\* C7 (as claimed; the code violates it): when the source closes after fewer
\* than num values and done stays open, the output carries exactly the
\* source's values, without any further element.
TakeYieldsOnlyAvailable ==
    TakeUndisturbed =>
        /\ IsPrefix(out, source)
        /\ (takeClosed > 0 /\ Len(source) < takeNum) => out = source

\* C8: the worker performs at most num receives on its source, so that at
\* most num values of a shared source go to it.
TakeReadsAtMostNum ==
    /\ takeReads <= takeNum
    /\ (srcNext - 1) - otherGot <= takeNum

\* C8 witness: the worker stopped on done after num receives on a source it
\* shares with another reader.
TakeReadNumThenCancelled ==
    /\ takeNum >= 2
    /\ takeReads = takeNum
    /\ otherGot > 0
    /\ done
    /\ takePc = "done"
    /\ Len(out) < takeNum

\* C9 (as claimed; the code violates it): once done is closed the worker
\* eventually terminates and closes takeStream.
TakeStopsOnDone == done ~> (takePc = "done" /\ takeClosed > 0)

(* ------------------------- OrDoneChannel: claims ----------------------- *)

\* The values the worker received from c and has not been holding since.
OrDonePassedOn ==
    IF odPc = "send" THEN SubSeq(odGot, 1, Len(odGot) - 1) ELSE odGot

OrDoneRelaysInOrder ==
    ~done =>
        /\ out = OrDonePassedOn
        /\ odPc = "send" => odVal = odGot[Len(odGot)]
        /\ odClosed > 0 => (srcClosed /\ out = odGot)
        /\ otherGot = 0 => IsPrefix(odGot, source)
        /\ (otherGot = 0 /\ odClosed > 0) => out = source

\* C10: while done is open, the output carries exactly the values the worker
\* received from c, in that order, each once; the output is closed only
\* after c is closed, and once c is closed the output is eventually closed.
OrDoneRelaysAll ==
    /\ []OrDoneRelaysInOrder
    /\ (srcClosed /\ ~done) ~> (done \/ (odClosed > 0 /\ out = odGot))

\* C10 witness: a source of two or more values was relayed in full and the
\* output closed, done still open.
OrDoneRelayedAll ==
    /\ Len(source) >= 2
    /\ source[1] # source[2]
    /\ otherGot = 0
    /\ ~done
    /\ odClosed = 1
    /\ out = source

\* C11: once done is closed the worker eventually terminates and closes
\* valStream, whether or not c ever yields or closes and whether or not
\* anybody receives the value the worker holds.
OrDoneStopsOnDone == done ~> (odPc = "done" /\ odClosed > 0)

\* C11 witness: the worker ended on done with c still open, after dropping
\* a value it had received.
OrDoneStoppedHoldingValue ==
    /\ done
    /\ odPc = "done"
    /\ odClosed = 1
    /\ ~srcClosed
    /\ Len(out) < Len(odGot)

\* C12 (as claimed; the code violates it): after done is closed the worker
\* receives no value from c and delivers no value on valStream.
OrDoneQuietAfterDone ==
    [][done => (odGot' = odGot /\ out' = out)]_vars

(* -------------------------- FanInChannel: claims ----------------------- *)

\* How often the value v occurs among all values of all inputs.
FanInCount(v) ==
    Cardinality({<<j, i>> \in (1 .. fiM) \X (1 .. MaxFanInLen) :
                    i <= fiLen[j] /\ FanInItem(j, i) = v})

\* How often v was taken from an input and is delivered or still held.
FanInTaken(v) ==
    Cardinality({<<j, i>> \in (1 .. fiM) \X (1 .. MaxFanInLen) :
                    i < fiNext[j] /\ FanInItem(j, i) = v})

FanInHeld(v) ==
    Cardinality({j \in 1 .. fiM : fiPc[j] = "select" /\ fiVal[j] = v})

FanInDelivered(v) == IF v \in DOMAIN fiOut THEN fiOut[v] ELSE 0

FanInAllReturned == \A j \in 1 .. fiM : fiPc[j] = "done"

FanInJoins ==
    /\ fiClosed <= 1
    /\ ~fiPanic
    /\ fiClosed > 0 => FanInAllReturned
    /\ ~done => \A v \in Values :
                   FanInDelivered(v) = FanInTaken(v) - FanInHeld(v)
    /\ (~done /\ fiClosed > 0) =>
           /\ \A j \in 1 .. fiM : fiInClosed[j]
           /\ \A v \in Values : FanInDelivered(v) = FanInCount(v)
    /\ fiM = 0 => fiOut = [v \in {} |-> 0]

\* C13: with done open, the values delivered are, as a multiset, the values
\* taken from the inputs; multiplexedStream is closed only after every
\* multiplex goroutine has returned, and then the delivered multiset is the
\* union of all inputs; when all inputs close the output is eventually
\* closed; without inputs it is closed without a value.
FanInYieldsUnion ==
    /\ []FanInJoins
    /\ (\A j \in 1 .. fiM : fiWillClose[j]) ~> (fiClosed > 0 \/ done)
    /\ (fiM = 0) ~> (fiClosed > 0)

\* C13 witness: two inputs of two values each were merged and the output is
\* closed, done still open.
FanInMergedTwo ==
    /\ fiM >= 2
    /\ fiLen[1] = 2
    /\ fiLen[2] = 2
    /\ ~done
    /\ fiClosed = 1

\* C14 (as claimed; the code violates it): once done is closed the output
\* is eventually closed.
FanInStopsOnDone == done ~> (fiClosed > 0)

(* --------------------------- TeeChannel: claims ------------------------ *)

TeeBothRead == teeMode \in {"both", "alternate"}

TeeBothClosed == teeClosed1 > 0 /\ teeClosed2 > 0

TeeCopiesInOrder ==
    (~done /\ TeeBothRead) =>
        /\ IsPrefix(teeOut1, source)
        /\ IsPrefix(teeOut2, source)
        /\ (teeClosed1 > 0 \/ teeClosed2 > 0) =>
               (TeeBothClosed /\ teeOut1 = source /\ teeOut2 = source)

\* C15: with done open and both outputs read, by two consumers or by one
\* that alternates, each output carries a prefix of the source, the outputs
\* are closed only with the whole source delivered on both, and a source
\* that closes leads to that.
TeeCopiesSource ==
    /\ []TeeCopiesInOrder
    /\ (TeeBothRead /\ srcWillClose)
           ~> (done \/ (TeeBothClosed /\ teeOut1 = source /\ teeOut2 = source))

\* C15 witness: one consumer alternating between the outputs has received
\* the whole of a source of two or more values on both, and both are closed.
TeeCopiedToAlternatingReader ==
    /\ teeMode = "alternate"
    /\ Len(source) >= 2
    /\ source[1] # source[2]
    /\ ~done
    /\ TeeBothClosed
    /\ teeOut1 = source
    /\ teeOut2 = source

TeeFront == SubSeq(teeGot, 1, Len(teeGot) - 1)

Abs(n) == IF n < 0 THEN -n ELSE n

\* C16: while done is open the worker holds the current value until both
\* outputs accepted it: outside the inner loop both outputs carry exactly
\* the values taken from the relay, inside it an output carries them all
\* or all but the current one, and the two counts differ by at most one.
TeeInLockstep ==
    ~done =>
        /\ teePc # "deliver" => (teeOut1 = teeGot /\ teeOut2 = teeGot)
        /\ teePc = "deliver" =>
               /\ teeOut1 = IF teeO1 THEN TeeFront ELSE teeGot
               /\ teeOut2 = IF teeO2 THEN TeeFront ELSE teeGot
               /\ teeVal = teeGot[Len(teeGot)]
        /\ Abs(Len(teeOut1) - Len(teeOut2)) <= 1

\* C16 witness: out2 has accepted the second value and the worker waits for
\* out1 to accept it.
TeeWaitsForOut1 ==
    /\ ~done
    /\ teePc = "deliver"
    /\ teeI = 1
    /\ teeO1
    /\ ~teeO2
    /\ Len(teeGot) = 2
    /\ Len(teeOut2) = Len(teeOut1) + 1

\* One of the two outputs is never read.
TeeOneUnread == teeMode \in {"onlyOut1", "onlyOut2"}

TeeStuckOnUnread ==
    (TeeOneUnread /\ ~done) =>
        /\ teeMode = "onlyOut1" => teeOut2 = <<>>
        /\ teeMode = "onlyOut2" => teeOut1 = <<>>
        /\ Len(teeOut1) + Len(teeOut2) <= 1
        /\ teeGot # <<>> =>
               /\ teePc = "deliver"
               /\ Len(teeGot) = 1
               /\ teeClosed1 = 0
               /\ teeClosed2 = 0

\* C27: with one output never read and done open, a worker that holds a
\* value stays in its inner loop with that value: the output that is read
\* has received at most one value and no output is closed; once done is
\* closed both outputs get closed.
TeeBlocksOnUnread ==
    /\ []TeeStuckOnUnread
    /\ (TeeOneUnread /\ done) ~> TeeBothClosed

\* C27 witness: out1 was never read, out2 received the first of two values
\* and nothing else, and after done was closed both outputs are closed.
TeeUnblockedByDone ==
    /\ teeMode = "onlyOut2"
    /\ Len(source) >= 2
    /\ done
    /\ teeOut1 = <<>>
    /\ Len(teeOut2) = 1
    /\ TeeBothClosed

\* C30: each output has received, at any time, a prefix of the source.
TeeOutputsArePrefixes ==
    /\ IsPrefix(teeOut1, source)
    /\ IsPrefix(teeOut2, source)

(* -------------------------- BridgeChannel: claims ---------------------- *)

RECURSIVE BridgeConcat(_)
\* s1 ++ s2 ++ ... ++ sk: the first k inner streams, one after the other.
BridgeConcat(k) ==
    IF k = 0 THEN <<>> ELSE BridgeConcat(k - 1) \o BridgeStream(k)

\* The inner streams sent so far, one after the other.
BridgeAll == BridgeConcat(Len(brLen))

\* Every stream so far is closed by its producer at its end.
BridgeAllClose ==
    /\ brOuterWillClose
    /\ \A k \in 1 .. Len(brLen) : brWillClose[k]

BridgeInOrder ==
    ~done =>
        /\ IsPrefix(out, BridgeAll)
        /\ brClosed > 0 => out = BridgeAll

\* C17: with done open the output carries a prefix of s1 ++ ... ++ sK, it is
\* closed only with all of it delivered, and unless done is closed or a
\* stream stays open, the output gets there.
BridgeYieldsConcat ==
    /\ []BridgeInOrder
    /\ <>(~BridgeAllClose \/ done \/ (brClosed > 0 /\ out = BridgeAll))

\* C17 witness: two inner streams of two values each were delivered whole,
\* the first stream before the second, and the output is closed.
BridgeJoinedTwoStreams ==
    /\ ~done
    /\ Len(brLen) = 2
    /\ brLen[1] = 2
    /\ brLen[2] = 2
    /\ brClosed > 0
    /\ out = BridgeStream(1) \o BridgeStream(2)

\* The relay of the inner stream in progress has returned: relays of
\* earlier inner streams returned before the worker asked for the next.
BridgeRelayReturned == odPc = "done"

\* C18: once done is closed the worker returns and closes valStream and
\* the relay returns, with no consumer receiving and no stream closing.
BridgeStopsOnDone ==
    done ~> (brPc = "done" /\ brClosed > 0 /\ BridgeRelayReturned)

\* C18 witness: done is closed, the outer stream and the inner stream in
\* progress stay open with values left, and worker and relay have returned.
BridgeStoppedOnOpenStreams ==
    /\ done
    /\ ~brOuterWillClose
    /\ brNext > 1
    /\ ~srcWillClose
    /\ srcNext <= Len(source)
    /\ out = <<>>
    /\ brPc = "done"
    /\ brClosed > 0
    /\ odPc = "done"
    /\ odClosed > 0

\* C28: with done open the worker takes the next inner stream from the
\* outer stream only when the one in progress is closed, its relay has
\* returned and all values of the streams so far are on the output.
BridgeOneAtATime ==
    [][(~done /\ brNext > 1 /\ brNext' # brNext) =>
           /\ srcClosed
           /\ srcNext > Len(source)
           /\ BridgeRelayReturned
           /\ out = BridgeConcat(brNext - 1)]_vars

\* C28 witness: the second inner stream is in progress, and the output
\* carries the two values of the first.
BridgeOnSecondStream ==
    /\ ~done
    /\ brNext = 3
    /\ brLen[1] = 2
    /\ brPc = "range"
    /\ source = BridgeStream(2)
    /\ out = BridgeStream(1)

(* ----------------- BufferChannel and ThrottleChannel: claims ----------- *)

\* The values received from in and not yet received by the consumer: the
\* one the relay holds, the one the worker holds and those in the buffer
\* of interfaceChannel.
BufferInFlight ==
    (IF odPc = "send" THEN 1 ELSE 0)
        + (IF bufPc \in {"acquire", "send"} THEN 1 ELSE 0)
        + Len(bufQueue)

\* C19: with a limit of one or more, at most limit values are received
\* from in and not yet received by the consumer.
BufferBoundsInFlight == bufLimit >= 1 => BufferInFlight <= bufLimit

(* -------------------- arguments out of range: claims ------------------- *)

\* C20: a call with an argument out of range fails and returns no stream:
\* after TakeChannel with a negative count no output is closed, after
\* BufferChannel with limit 0 no value reaches a consumer, and after
\* ThrottleChannel with limit 0 no worker holds a value it took from the
\* relay, waiting to send on tokens.
MisuseRejectedAtCall ==
    /\ takeNum < 0 => takeClosed = 0
    /\ (bufKind = "buffer" /\ bufLimit = 0) => out = <<>>
    /\ (bufKind = "throttle" /\ bufLimit = 0) => bufPc # "acquire"

(* ----------------------------- ToTChannel: claims ---------------------- *)

\* The source values up to the first one that is not of type T.
RECURSIVE ToTGoodPrefix(_)
ToTGoodPrefix(s) ==
    IF s = <<>> \/ ToTBox(Head(s)).type # "int"
      THEN <<>>
      ELSE <<Head(s)>> \o ToTGoodPrefix(Tail(s))

\* C21: with done open the output carries, in order, the source values
\* before the first one of another type; the worker panics at that one with
\* all those before it delivered, and the consumer does not find the output
\* closed afterwards, as at the end of a stream; a worker that returned has
\* delivered the whole source.
ToTExtractsTyped ==
    ~done =>
        /\ IsPrefix(out, ToTGoodPrefix(source))
        /\ totPanic => (out = ToTGoodPrefix(source) /\ ~totSawEnd)
        /\ totPc = "done" => out = source

(* ----------------------------- generators: claims ---------------------- *)

\* C22: RepeatValueChannel called without values closes its output, with
\* nothing sent, whether done is closed or not.
RepeatValueEmptyCloses ==
    (genKind = "repeatValue" /\ genValues = <<>>)
        ~> (genClosed > 0 /\ out = <<>>)

\* C23: with n >= 1 values the i-th value sent, counted from 0, is
\* values[i mod n], and the output is not closed while done is open.
RepeatValueRoundRobin ==
    (genKind = "repeatValue" /\ Len(genValues) >= 1) =>
        /\ \A i \in 0 .. Len(out) - 1 :
               out[i + 1] = genValues[(i % Len(genValues)) + 1]
        /\ genClosed > 0 => done

\* C23 witness: a list of two different values has been sent twice over and
\* the output is open.
RepeatValueWentRoundTwice ==
    /\ genKind = "repeatValue"
    /\ Len(genValues) = 2
    /\ genValues[1] # genValues[2]
    /\ out = genValues \o genValues
    /\ genClosed = 0
    /\ ~done

\* The number of values placed on the output so far.
GenPlaced == Len(out) + Len(genQueue)

\* C24: once done is closed no generator places another value on its
\* output.
GenQuietAfterDone == [][done => GenPlaced' = GenPlaced]_vars

GeneratorInOrder ==
    (genKind = "slice" /\ ~done) =>
        /\ IsPrefix(out \o genQueue, genValues)
        /\ genClosed > 0 => out \o genQueue = genValues

\* C25: with done open the values received and those waiting in the buffer
\* are, in order, a prefix of the list, the output is closed only with the
\* whole list placed, and the consumer gets the whole list from an output
\* that is then closed.
GeneratorDeliversList ==
    /\ []GeneratorInOrder
    /\ (genKind = "slice") ~> (done \/ (genClosed > 0 /\ out = genValues))

\* C25 witness: the worker has returned and closed the output before the
\* consumer received the first of three values.
GeneratorDoneBeforeReader ==
    /\ genKind = "slice"
    /\ ~done
    /\ Len(genValues) = 3
    /\ genPc = "done"
    /\ genClosed > 0
    /\ out = <<>>
    /\ genQueue = genValues

\* C26: when the worker of RepeatFnChannel has returned, fn was called as
\* often as values were sent.
RepeatFnCallsPerEmission ==
    (genKind = "repeatFn" /\ genPc = "done") => genCalls = Len(out)

(* ------------------------ closing and sending: claims ------------------ *)

\* The channels OrChannel created: those after the caller's signals.
OrCreated == { c \in 1 .. Len(orClosed) : c > MaxOrInputs }

\* No channel a combinator created has been closed twice.
ClosedAtMostOnce ==
    /\ \A c \in OrCreated : orClosed[c] <= 1
    /\ takeClosed <= 1
    /\ odClosed <= 1
    /\ fiClosed <= 1
    /\ teeClosed1 <= 1
    /\ teeClosed2 <= 1
    /\ brClosed <= 1
    /\ bufClosed <= 1
    /\ bufTokClosed <= 1
    /\ genClosed <= 1
    /\ totClosed <= 1

\* C29: no channel a combinator created is closed twice and no goroutine
\* sends on a closed one: FanInChannel's output is closed only when every
\* multiplex goroutine has returned, each goroutine of OrChannel that
\* returned has closed its own output once, whatever number of its inputs
\* is closed, and TeeChannel's outputs are closed only by the worker that
\* returns from its loop.
NoCloseOrSendAfterClose ==
    /\ ClosedAtMostOnce
    /\ ~fiPanic
    /\ fiClosed > 0 => FanInAllReturned
    /\ \A g \in 1 .. Len(orGo) :
           orClosed[orGo[g].orDone] = IF orGo[g].pc = "done" THEN 1 ELSE 0
    /\ (teeClosed1 > 0 \/ teeClosed2 > 0) => teePc = "done"

\* C29 witness: done was closed while both multiplex goroutines of a
\* FanInChannel call held input; both have returned and the output has
\* been closed once.
FanInClosedOnceAfterDone ==
    /\ fiM = 2
    /\ done
    /\ \A j \in 1 .. fiM : fiNext[j] <= fiLen[j]
    /\ FanInAllReturned
    /\ fiClosed = 1
    /\ ~fiPanic

(* ------------------------- TestBufferChannel: claims ------------------- *)

\* In how many places of the pipeline the name v is: held by a goroutine
\* that is about to send it, in the buffer of bufferedChan, or received by
\* the final consumer.
BufPipeHolders(v) ==
    (IF odPc = "send" /\ odVal = v THEN 1 ELSE 0)
    + (IF bufPc = "send" /\ bufVal = v THEN 1 ELSE 0)
    + Cardinality({k \in 1 .. Len(bufQueue) : bufQueue[k] = v})
    + Cardinality({i \in 1 .. fiM : wkRelayPc[i] = "send" /\ wkRelayVal[i] = v})
    + Cardinality({i \in 1 .. fiM : wkPc[i] = "select" /\ wkVal[i] = v})
    + Cardinality({j \in 1 .. fiM : fiPc[j] = "select" /\ fiVal[j] = v})
    + (IF v \in DOMAIN fiOut THEN fiOut[v] ELSE 0)

\* Every name taken from the generator is in one place, the others in none.
BufPipeExactlyOnce ==
    \A v \in 1 .. Len(source) :
        BufPipeHolders(v) = IF v < srcNext THEN 1 ELSE 0

\* Every goroutine of the pipeline has returned.
BufPipeAllReturned ==
    /\ odPc = "done"
    /\ bufPc = "done"
    /\ \A i \in 1 .. fiM :
          wkRelayPc[i] = "done" /\ wkPc[i] = "done" /\ fiPc[i] = "done"

\* The final stream is closed, once, only when the generator's stream is
\* closed, every goroutine returned and every name was received once.
BufPipeComplete ==
    fiClosed > 0 =>
        /\ fiClosed = 1
        /\ srcClosed
        /\ BufPipeAllReturned
        /\ DOMAIN fiOut = 1 .. Len(source)
        /\ \A v \in 1 .. Len(source) : fiOut[v] = 1

\* No goroutine is at a select of the pipeline once done is closed.
BufPipeDoneUnused == done => BufPipeAllReturned

\* C31: in the pipeline of BufferChannel, sleepers that share bufferedChan
\* and FanInChannel, without cancellation, every name of the source is at
\* all times in one place (never lost, never with two sleepers), the final
\* stream is closed only after the source is exhausted, every goroutine has
\* returned and every name was received once, and it does get closed.
BufPipeDelivers ==
    /\ [](BufPipeExactlyOnce /\ BufPipeComplete /\ BufPipeDoneUnused)
    /\ <>(fiClosed > 0)

\* Three names went through a buffer of two and both sleepers carried some.
BufPipeBothSleepersCarried ==
    /\ fiClosed > 0
    /\ Len(source) = 3
    /\ bufLimit = 2
    /\ fiM = 2
    /\ fiVal[1] # ZeroValue
    /\ fiVal[2] # ZeroValue

(* ----------------------------- TestFanIn: claims ----------------------- *)

\* Every goroutine of the pipeline has returned and every channel they
\* made is closed, once; nothing was sent on a closed channel.
FanPipeAllClosed ==
    /\ genPc = "done" /\ genClosed = 1
    /\ totPc = "done" /\ totClosed = 1
    /\ \A i \in 1 .. fiM :
          wkPc[i] = "done" /\ fiInClosed[i] /\ fiPc[i] = "done"
    /\ fiWg = 0
    /\ fiCloserPc = "done" /\ fiClosed = 1
    /\ takePc = "done" /\ takeClosed = 1
    /\ ~fiPanic /\ ~totPanic

\* The test received primes only, never more than num, and num of them
\* when take's output is closed; done is closed only after that.
FanPipeTakesNum ==
    /\ Len(out) <= takeNum
    /\ \A k \in 1 .. Len(out) : FinderPrime(out[k])
    /\ takeClosed > 0 => Len(out) = takeNum /\ takeClosed = 1
    /\ done => takeClosed > 0
    /\ ~fiPanic /\ ~totPanic

\* C32: in take(fanIn(primeFinders on one shared stream of toInt(repeatFn)),
\* num) the test receives exactly num values and take's output closes; once
\* done is closed after that, every goroutine returns and every channel
\* they made is closed.
FanPipeTakesAndStops ==
    /\ []FanPipeTakesNum
    /\ <>(takeClosed > 0)
    /\ done ~> FanPipeAllClosed

\* Two finders fed the three values the test took, and everything stopped
\* after done was closed.
FanPipeStoppedAfterThree ==
    /\ done
    /\ FanPipeAllClosed
    /\ fiM = 2
    /\ takeNum = 3
    /\ Len(out) = 3
    /\ fiVal[1] # ZeroValue
    /\ fiVal[2] # ZeroValue

====
